---- MODULE Spec2Model ----
(***************************************************************************)
(* phylovector: the codec between rooted leaf-labelled trees and vectors   *)
(* (src/src/phylovector/phylovector.py) and the canonical Newick           *)
(* serialisation (src/src/phylovector/newick.py).                          *)
(*                                                                         *)
(* Numbers.  Branch lengths and vector entries are Python floats.  They    *)
(* are modelled in fixed point: one unit is 1e-7, so 1e-6 is 10 units and  *)
(* 1.0 is 10000000 units.  Sums and differences are exact in the model;    *)
(* the binary rounding of float addition (about 1e-16 relative) is not     *)
(* modelled, the decimal rounding of "%0.6g" and the epsilon snap are.     *)
(*                                                                         *)
(* Trees.  An ete3 node is a record [name, dist, children], children a     *)
(* sequence of nodes.  A node of a tree is addressed by its path, the      *)
(* sequence of child positions leading to it from the root.                *)
(***************************************************************************)
EXTENDS Integers, Sequences, FiniteSets, TLC

\* Largest number of leaves of the trees and vectors the callers supply.
MaxLeaves == 3

\* epsilon=1e-6, the default of tree2vector, in units of 1e-7.
Epsilon == 10

\* ete3's default branch length 1.0 of a node made by Tree() or add_child().
DefaultDist == 10000000

\* Significant digits ete3's write() keeps of a branch length ("%0.6g").
SigDigits == 6

---------------------------------------------------------------------------
\* Sequences and numbers

Max2(a, b) == IF a >= b THEN a ELSE b

Abs(x) == IF x < 0 THEN -x ELSE x

\* max() of a non-empty collection of numbers.
MaxOf(S) == CHOOSE m \in S : \A x \in S : x <= m

Range(s) == { s[i] : i \in DOMAIN s }

\* The function f over 1..n as a sequence.
Tuple(f) == f \o << >>

RECURSIVE Pow10(_)
Pow10(k) == IF k <= 0 THEN 1 ELSE 10 * Pow10(k - 1)

RECURSIVE NumDigits(_)
NumDigits(x) == IF x < 10 THEN 1 ELSE 1 + NumDigits(x \div 10)

\* "%0.6g" % x read back by float(): x kept to SigDigits significant decimal
\* digits, the rest rounded to nearest.
FormatG(x) ==
    IF NumDigits(Abs(x)) <= SigDigits THEN x
    ELSE LET p == Pow10(NumDigits(Abs(x)) - SigDigits)
             q == (2 * Abs(x) + p) \div (2 * p)
         IN  IF x < 0 THEN -(q * p) ELSE q * p

---------------------------------------------------------------------------
\* Leaf names and Python's string order

\* The names in use, in the order Python's sorted() puts them.
NameOrder ==
    << "A", "B", "C", "D", "E",
       "Leaf_0", "Leaf_1", "Leaf_2", "Leaf_3", "Leaf_4" >>

Rank(s) == CHOOSE i \in DOMAIN NameOrder : NameOrder[i] = s

\* Insert x into the sorted sequence s.
RECURSIVE InsertSorted(_, _)
InsertSorted(x, s) ==
    IF s = << >> THEN << x >>
    ELSE IF Rank(x) < Rank(Head(s)) THEN << x >> \o s
    ELSE << Head(s) >> \o InsertSorted(x, Tail(s))

\* sorted(s) for a list of names.
RECURSIVE Sorted(_)
Sorted(s) == IF s = << >> THEN << >> ELSE InsertSorted(Head(s), Sorted(Tail(s)))

\* itertools.combinations(s, 2): the pairs <<s[i], s[j]>>, i < j, i-major.
RECURSIVE PairsFrom(_, _, _)
PairsFrom(s, i, j) ==
    IF i >= Len(s) THEN << >>
    ELSE IF j > Len(s) THEN PairsFrom(s, i + 1, i + 2)
    ELSE << << s[i], s[j] >> >> \o PairsFrom(s, i, j + 1)

Combinations2(s) == PairsFrom(s, 1, 2)

---------------------------------------------------------------------------
\* ete3 trees

Leaf(name, dist) == [name |-> name, dist |-> dist, children |-> << >>]

\* A node that takes the name of its first child.
NodeNamedAfterChild(dist, children) ==
    [name |-> IF children = << >> THEN "" ELSE children[1].name,
     dist |-> dist, children |-> children]

\* ete3.Tree(): a node without a name.
Node(dist, children) == [name |-> "", dist |-> dist, children |-> children]

IsLeaf(t) == t.children = << >>

\* The node at a path.
RECURSIVE NodeAt(_, _)
NodeAt(t, path) ==
    IF path = << >> THEN t ELSE NodeAt(t.children[Head(path)], Tail(path))

\* The paths of all nodes, in preorder.
RECURSIVE AllPaths(_)
RECURSIVE PathsOfChildren(_, _)
AllPaths(t) == << << >> >> \o PathsOfChildren(t, 1)
PathsOfChildren(t, i) ==
    IF i > Len(t.children) THEN << >>
    ELSE LET sub == AllPaths(t.children[i])
         IN  Tuple([k \in 1..Len(sub) |-> << i >> \o sub[k]]) \o PathsOfChildren(t, i + 1)

\* The paths of the leaves, in iter_leaves() order.
LeafPaths(t) == SelectSeq(AllPaths(t), LAMBDA p : IsLeaf(NodeAt(t, p)))

\* [leaf.name for leaf in tree.iter_leaves()] and node.get_leaf_names().
get_leaf_names(t) ==
    LET ps == LeafPaths(t) IN Tuple([k \in 1..Len(ps) |-> NodeAt(t, ps[k]).name])

\* tree & name: the node that carries the name.
SearchName(t, name) ==
    LET ps == AllPaths(t)
        k  == CHOOSE i \in 1..Len(ps) :
                  /\ NodeAt(t, ps[i]).name = name
                  /\ \A j \in 1..(i - 1) : NodeAt(t, ps[j]).name # name
    IN  ps[k]

\* tree.get_distance(tree, node): the branch lengths on the way from the root
\* down to the node, the root's own length left out.
RECURSIVE DistFromRoot(_, _)
DistFromRoot(t, path) ==
    IF path = << >> THEN 0
    ELSE LET c == t.children[Head(path)]
         IN  c.dist + DistFromRoot(c, Tail(path))

\* get_common_ancestor of two nodes: the longest common prefix of their paths.
RECURSIVE CommonPrefix(_, _)
CommonPrefix(p, q) ==
    IF p = << >> \/ q = << >> \/ Head(p) # Head(q) THEN << >>
    ELSE << Head(p) >> \o CommonPrefix(Tail(p), Tail(q))

\* tree.get_distance(a, b) for two nodes of the tree.
get_distance(t, pa, pb) ==
    LET anc == CommonPrefix(pa, pb)
    IN  (DistFromRoot(t, pa) - DistFromRoot(t, anc))
        + (DistFromRoot(t, pb) - DistFromRoot(t, anc))

\* The tree with the branch length of the node at path set to d.
RECURSIVE SetDist(_, _, _)
SetDist(t, path, d) ==
    IF path = << >> THEN [t EXCEPT !.dist = d]
    ELSE [t EXCEPT !.children[Head(path)] =
                       SetDist(t.children[Head(path)], Tail(path), d)]

\* ete3.Tree(t.write()): the tree rebuilt from its format-0 Newick text.  Leaf
\* names and the child order are kept, a branch length is written with
\* "%0.6g", internal nodes come back unnamed and the root, whose length is
\* not written, with length 0.
RECURSIVE NewickCopy(_, _)
NewickCopy(t, isRoot) ==
    [name     |-> IF IsLeaf(t) THEN t.name ELSE "",
     dist     |-> IF isRoot THEN 0 ELSE FormatG(t.dist),
     children |-> Tuple([i \in 1..Len(t.children) |->
                            NewickCopy(t.children[i], FALSE)])]

---------------------------------------------------------------------------
\* tree2vector (phylovector.py, lines 188-228)

\* What tree2vector would work on without line 193: the caller's own tree.
AliasedTree(source_tree) ==
    [aliased |-> TRUE, tree |-> source_tree]

\* The tree the encoder works on: a new tree rebuilt from the Newick text of
\* the caller's tree, so it shares no node with it.
WorkingTree(source_tree) ==
    [aliased |-> FALSE, tree |-> NewickCopy(source_tree, TRUE)]

\* The least root-to-leaf distance, in place of the greatest.
MinAge(tree, leaves) ==
    -MaxOf({ -DistFromRoot(tree, SearchName(tree, leaves[i])) : i \in DOMAIN leaves })

\* The distance of the first leaf, in place of the greatest.
FirstLeafAge(tree, leaves) == DistFromRoot(tree, SearchName(tree, leaves[1]))

\* max([tree.get_distance(tree, leaf) for leaf in leaves])
RootAge(tree, leaves) ==
    MaxOf({ DistFromRoot(tree, SearchName(tree, leaves[i])) : i \in DOMAIN leaves })

\* The padding loop collecting the extensions without extending the leaves.
RECURSIVE PadWithoutExtending(_, _, _, _, _)
PadWithoutExtending(tree, leaves, root_age, k, lengths) ==
    IF k > Len(leaves) THEN [tree |-> tree, lengths |-> lengths]
    ELSE PadWithoutExtending(tree, leaves, root_age, k + 1,
             Append(lengths, root_age - DistFromRoot(tree, SearchName(tree, leaves[k]))))

\* The padding loop from leaf k on: every leaf is extended to reach root_age
\* and the extension is collected.
RECURSIVE PadLeaves(_, _, _, _, _)
PadLeaves(tree, leaves, root_age, k, lengths) ==
    IF k > Len(leaves) THEN [tree |-> tree, lengths |-> lengths]
    ELSE LET leaf_node == SearchName(tree, leaves[k])
             diff      == root_age - DistFromRoot(tree, leaf_node)
         IN  PadLeaves(SetDist(tree, leaf_node, NodeAt(tree, leaf_node).dist + diff),
                       leaves, root_age, k + 1, Append(lengths, diff))

\* The height of the common ancestor of every pair of leaves, measured down
\* to the first leaf of the pair.
Ultrametric(tree, leaves) ==
    LET pairs == Combinations2(leaves)
    IN  Tuple([k \in 1..Len(pairs) |->
            LET pi       == SearchName(tree, pairs[k][1])
                pj       == SearchName(tree, pairs[k][2])
                comm_anc == CommonPrefix(pi, pj)
            IN  get_distance(tree, comm_anc, pi)])

\* The value as computed, without the snap to zero.
NoSnap(val, epsilon) == val

\* The snap of the values strictly below epsilon only.
SnapBelow(val, epsilon) == IF Abs(val) < epsilon THEN 0 ELSE val

\* 0 if math.isclose(val, 0, abs_tol=epsilon) else val
Snap(val, epsilon) == IF Abs(val) <= epsilon THEN 0 ELSE val

SnapAll(vals, epsilon) == Tuple([k \in DOMAIN vals |-> Snap(vals[k], epsilon)])

\* One call of tree2vector.  The record holds what the call returns (result),
\* the two parts before and after the snap, the working tree as the call
\* leaves it, and the caller's tree as the call leaves it.
tree2vector(source_tree, components, epsilon) ==
    LET w           == WorkingTree(source_tree)
        leaves      == Sorted(get_leaf_names(w.tree))
        root_age    == RootAge(w.tree, leaves)
        padded      == PadLeaves(w.tree, leaves, root_age, 1, << >>)
        ultrametric == Ultrametric(padded.tree, leaves)
        lengths     == SnapAll(padded.lengths, epsilon)
        heights     == SnapAll(ultrametric, epsilon)
    IN  [result      |-> IF components THEN << lengths, heights >>
                         ELSE lengths \o heights,
         lengths     |-> lengths,
         ultrametric |-> heights,
         rawLengths  |-> padded.lengths,
         rawHeights  |-> ultrametric,
         copy        |-> w.tree,
         leaves      |-> leaves,
         root_age    |-> root_age,
         tree        |-> padded.tree,
         source      |-> IF w.aliased THEN padded.tree ELSE source_tree]

---------------------------------------------------------------------------
\* pathgraph2tree (phylovector.py, lines 11-80)
\*
\* A path graph is [nodes, weights]: the nodes in the graph's iteration
\* order, weights[k] the weight of the edge between nodes[k] and nodes[k+1].
\* The edges of a path whose nodes were inserted along the chain are iterated
\* along the chain.  networkx iterates the copy of a component in the order
\* of its graph when the component holds at least half of the graph's nodes,
\* and otherwise in the order of Python's set of names, which differs from
\* run to run (hashOrder).  A component of three or more nodes in set order
\* needs a graph of seven or more nodes.

SubSeqOrEmpty(s, a, b) == IF a > b THEN << >> ELSE SubSeq(s, a, b)

Reverse(s) == Tuple([k \in 1..Len(s) |-> s[Len(s) + 1 - k]])

\* The first edge of minimum weight, in place of maximum.
min_edge_weight(P) ==
    CHOOSE e \in 1..Len(P.weights) :
        /\ \A k \in 1..Len(P.weights) : P.weights[k] >= P.weights[e]
        /\ \A k \in 1..(e - 1) : P.weights[k] > P.weights[e]

\* The last edge of maximum weight, in place of the first.
last_max_edge_weight(P) ==
    CHOOSE e \in 1..Len(P.weights) :
        /\ \A k \in 1..Len(P.weights) : P.weights[k] <= P.weights[e]
        /\ \A k \in (e + 1)..Len(P.weights) : P.weights[k] < P.weights[e]

\* _max_edge_weight: the first edge, in iteration order, of maximum weight.
max_edge_weight(P) ==
    CHOOSE e \in 1..Len(P.weights) :
        /\ \A k \in 1..Len(P.weights) : P.weights[k] <= P.weights[e]
        /\ \A k \in 1..(e - 1) : P.weights[k] < P.weights[e]

\* P.subgraph(comp).copy() for the nodes a..b of P.
Component(P, a, b, hashOrder) ==
    LET nodes   == SubSeqOrEmpty(P.nodes, a, b)
        weights == SubSeqOrEmpty(P.weights, a, b - 1)
    IN  IF hashOrder /\ 2 * Len(nodes) < Len(P.nodes)
        THEN [nodes |-> Reverse(nodes), weights |-> Reverse(weights)]
        ELSE [nodes |-> nodes, weights |-> weights]

\* resolve_polytomy at one node: children c1, c2, ..., ck (k > 2) become
\* <<new node over the resolved c2..ck, c1>>, the new node of length 0.
RECURSIVE ResolveChildren(_)
ResolveChildren(children) ==
    IF Len(children) <= 2 THEN children
    ELSE << Node(0, ResolveChildren(Tail(children))), Head(children) >>

\* resolve_polytomy(recursive=True)
RECURSIVE resolve_polytomy(_)
resolve_polytomy(t) ==
    [t EXCEPT !.children =
        ResolveChildren(Tuple([i \in 1..Len(t.children) |->
                                  resolve_polytomy(t.children[i])]))]

\* n.delete(prevent_nondicotomic=True, preserve_branch_length=True) for the
\* first child n that has exactly one child: the grandchild takes n's length
\* on top of its own and goes to the end of the children, n is removed.
RECURSIVE DeleteSingles(_)
DeleteSingles(children) ==
    IF \A i \in 1..Len(children) : Len(children[i].children) # 1 THEN children
    ELSE LET i  == CHOOSE j \in 1..Len(children) :
                       /\ Len(children[j].children) = 1
                       /\ \A h \in 1..(j - 1) : Len(children[h].children) # 1
             n  == children[i]
             ch == [n.children[1] EXCEPT !.dist = @ + n.dist]
         IN  DeleteSingles(SubSeqOrEmpty(children, 1, i - 1)
                           \o SubSeqOrEmpty(children, i + 1, Len(children))
                           \o << ch >>)

\* The loop of standardize over get_descendants(): every descendant with
\* exactly one child is deleted.  The root is no descendant of itself.
RECURSIVE DeleteSingleChildNodes(_)
DeleteSingleChildNodes(t) ==
    LET kept == DeleteSingles(t.children)
    IN  [t EXCEPT !.children =
            Tuple([i \in 1..Len(kept) |-> DeleteSingleChildNodes(kept[i])])]

\* The tree as it was built, not standardized.
AsBuilt(t) == t

\* tree.standardize()
standardize(t) == DeleteSingleChildNodes(resolve_polytomy(t))

\* The base case only for a graph without edges.
NoEdges(P) == Len(P.weights) = 0

\* if len(P.edges) <= 1: the base case.
LastCase(P) == Len(P.weights) <= 1

RECURSIVE pathgraph2tree(_, _)
pathgraph2tree(P, hashOrder) ==
    IF LastCase(P)
    THEN standardize(Node(DefaultDist,
             Tuple([i \in 1..Len(P.nodes) |-> Leaf(P.nodes[i], DefaultDist)])))
    ELSE LET edge  == max_edge_weight(P)
             comp1 == Component(P, 1, edge, hashOrder)
             comp2 == Component(P, edge + 1, Len(P.nodes), hashOrder)
         IN  standardize(Node(DefaultDist,
                 << pathgraph2tree(comp1, hashOrder),
                    pathgraph2tree(comp2, hashOrder) >>))

\* The path graphs that the calls of pathgraph2tree receive when the first
\* call receives P: P itself and, when P has two edges or more, what the
\* calls for its two components receive.
RECURSIVE SubPaths(_, _)
SubPaths(P, hashOrder) ==
    LET this == [nodes |-> P.nodes, weights |-> P.weights]
    IN  IF LastCase(P) THEN { this }
        ELSE LET edge == max_edge_weight(P)
             IN  { this }
                 \cup SubPaths(Component(P, 1, edge, hashOrder), hashOrder)
                 \cup SubPaths(Component(P, edge + 1, Len(P.nodes), hashOrder), hashOrder)

\* The calls of pathgraph2tree made when it is called on P at the given
\* depth of the call stack by a caller whose graph has caller_edges edges:
\* for each call its graph, its depth and the edges of its caller's graph.
RECURSIVE CallsOf(_, _, _, _)
CallsOf(P, hashOrder, depth, caller_edges) ==
    LET this == [graph |-> [nodes |-> P.nodes, weights |-> P.weights],
                 depth |-> depth, caller_edges |-> caller_edges]
    IN  IF LastCase(P) THEN { this }
        ELSE LET edge == max_edge_weight(P)
             IN  { this }
                 \cup CallsOf(Component(P, 1, edge, hashOrder), hashOrder,
                              depth + 1, Len(P.weights))
                 \cup CallsOf(Component(P, edge + 1, Len(P.nodes), hashOrder), hashOrder,
                              depth + 1, Len(P.weights))

---------------------------------------------------------------------------
\* vector2tree (phylovector.py, lines 83-185)

\* vector_length (__init__.py): the length of the vector of num_taxa leaves.
vector_length(num_taxa) == (num_taxa * num_taxa + num_taxa) \div 2

\* The value returned for the tree when a call raises instead.
NoTree == Leaf("<no tree>", 0)

\* The leaves argument: None, or a list of names.
NoLeaves == [none |-> TRUE, names |-> << >>]

LeafList(names) == [none |-> FALSE, names |-> names]

\* math.sqrt(x) when it is a whole number, else -1.
WholeSqrt(x) ==
    IF \E r \in 0..x : r * r = x THEN CHOOSE r \in 0..x : r * r = x ELSE -1

\* The leaf count without the test that it is a whole number: the square
\* root and the division rounded down.
NumLeavesRounded(len) ==
    LET x == 8 * len + 1
        r == CHOOSE q \in 0..x : q * q <= x /\ (q + 1) * (q + 1) > x
    IN  IF (r - 1) \div 2 >= 2 THEN (r - 1) \div 2 ELSE -1

\* (math.sqrt(8 * len(vector) + 1) - 1) / 2 when it is a whole number of at
\* least 2, else -1 (the call raises "Invalid vector length").
NumLeaves(len) ==
    LET r == WholeSqrt(8 * len + 1)
    IN  IF r >= 0 /\ (r - 1) % 2 = 0 /\ (r - 1) \div 2 >= 2
        THEN (r - 1) \div 2
        ELSE -1

\* The synthetic names counted down: Leaf_{n-1}, ..., Leaf_0.
SyntheticNamesReversed(num_leaves) ==
    Tuple([i \in 1..num_leaves |->
        CASE num_leaves - i = 0 -> "Leaf_0" [] num_leaves - i = 1 -> "Leaf_1"
          [] num_leaves - i = 2 -> "Leaf_2" [] num_leaves - i = 3 -> "Leaf_3"
          [] OTHER -> "Leaf_4"])

\* [f"Leaf_{i}" for i in range(num_leaves)]
SyntheticNames(num_leaves) ==
    Tuple([i \in 1..num_leaves |->
        CASE i = 1 -> "Leaf_0" [] i = 2 -> "Leaf_1" [] i = 3 -> "Leaf_2"
          [] i = 4 -> "Leaf_3" [] OTHER -> "Leaf_4"])

\* The supplied names sorted before use, in place of as supplied.
EffectiveLeavesSorted(leaves, num_leaves) ==
    IF leaves.none \/ leaves.names = << >>
    THEN [ok |-> TRUE, names |-> SyntheticNames(num_leaves)]
    ELSE IF Len(leaves.names) # num_leaves
    THEN [ok |-> FALSE, names |-> leaves.names]
    ELSE [ok |-> TRUE, names |-> Sorted(leaves.names)]

\* The names the call goes on with: "if not leaves" holds for None and for
\* the empty list; a list of another length than num_leaves raises.
EffectiveLeaves(leaves, num_leaves) ==
    IF leaves.none \/ leaves.names = << >>
    THEN [ok |-> TRUE, names |-> SyntheticNames(num_leaves)]
    ELSE IF Len(leaves.names) # num_leaves
    THEN [ok |-> FALSE, names |-> leaves.names]
    ELSE [ok |-> TRUE, names |-> leaves.names]

\* leaf_distances: the dict filled in the order of combinations(leaves, 2),
\* both directions of a pair, a later pair overwriting an earlier one.
LeafDistances(vector, leaves, num_leaves) ==
    LET pairs == Combinations2(leaves)
        hits(a, b) == { k \in 1..Len(pairs) :
                          pairs[k] = << a, b >> \/ pairs[k] = << b, a >> }
        keys == { p \in Range(leaves) \X Range(leaves) : hits(p[1], p[2]) # {} }
    IN  [p \in keys |-> vector[MaxOf(hits(p[1], p[2])) + num_leaves]]

\* The position of the first leaf of greatest distance, in place of least.
FarthestLeaf(leaf_i, remaining_leaves, leaf_distances) ==
    CHOOSE k \in 1..Len(remaining_leaves) :
        /\ \A j \in 1..Len(remaining_leaves) :
               leaf_distances[<< leaf_i, remaining_leaves[k] >>]
                   >= leaf_distances[<< leaf_i, remaining_leaves[j] >>]
        /\ \A j \in 1..(k - 1) :
               leaf_distances[<< leaf_i, remaining_leaves[j] >>]
                   < leaf_distances[<< leaf_i, remaining_leaves[k] >>]

\* The position of the last leaf of least distance, in place of the first.
LastNearestLeaf(leaf_i, remaining_leaves, leaf_distances) ==
    CHOOSE k \in 1..Len(remaining_leaves) :
        /\ \A j \in 1..Len(remaining_leaves) :
               leaf_distances[<< leaf_i, remaining_leaves[k] >>]
                   <= leaf_distances[<< leaf_i, remaining_leaves[j] >>]
        /\ \A j \in (k + 1)..Len(remaining_leaves) :
               leaf_distances[<< leaf_i, remaining_leaves[j] >>]
                   > leaf_distances[<< leaf_i, remaining_leaves[k] >>]

\* min([(leaf, leaf_distances[leaf_i, leaf]) for leaf in remaining_leaves],
\*     key=lambda x: x[1]): the position of the first leaf of least distance.
NearestLeaf(leaf_i, remaining_leaves, leaf_distances) ==
    CHOOSE k \in 1..Len(remaining_leaves) :
        /\ \A j \in 1..Len(remaining_leaves) :
               leaf_distances[<< leaf_i, remaining_leaves[k] >>]
                   <= leaf_distances[<< leaf_i, remaining_leaves[j] >>]
        /\ \A j \in 1..(k - 1) :
               leaf_distances[<< leaf_i, remaining_leaves[j] >>]
                   > leaf_distances[<< leaf_i, remaining_leaves[k] >>]

\* The search node kept as it is, in place of moving to the leaf just placed.
KeepSearchNode(leaf_i, leaf_j) == leaf_i

\* "Update search node": leaf_i = leaf_j
NextSearchNode(leaf_i, leaf_j) == leaf_j

\* path_graph.add_edge(u, v, weight): the two nodes are added in this order
\* when the graph does not hold them yet, and the edge is added.
AddEdge(path_graph, u, v, weight) ==
    LET with_u == IF u \in Range(path_graph.nodes) THEN path_graph.nodes
                  ELSE Append(path_graph.nodes, u)
        with_v == IF v \in Range(with_u) THEN with_u ELSE Append(with_u, v)
    IN  [nodes   |-> with_v,
         weights |-> Append(path_graph.weights, weight),
         edges   |-> Append(path_graph.edges, << u, v, weight >>),
         steps   |-> path_graph.steps]

\* The while loop that builds path_graph, from the state (leaf_i,
\* remaining_leaves, path_graph) on; steps counts its iterations.
RECURSIVE ChainLoop(_, _, _, _)
ChainLoop(leaf_i, remaining_leaves, path_graph, leaf_distances) ==
    IF remaining_leaves = << >> THEN path_graph
    ELSE LET k      == NearestLeaf(leaf_i, remaining_leaves, leaf_distances)
             leaf_j == remaining_leaves[k]
             weight == leaf_distances[<< leaf_i, leaf_j >>]
             added  == AddEdge(path_graph, leaf_i, leaf_j, weight)
         IN  ChainLoop(NextSearchNode(leaf_i, leaf_j),
                       SubSeqOrEmpty(remaining_leaves, 1, k - 1)
                           \o SubSeqOrEmpty(remaining_leaves, k + 1,
                                            Len(remaining_leaves)),
                       [added EXCEPT !.steps = @ + 1],
                       leaf_distances)

\* The path graph of the leaves: the chain starts from the last leaf.  Its
\* edges are kept in the order they were added; nodes and weights are the
\* graph as pathgraph2tree iterates it.
PathGraph(leaves, leaf_distances) ==
    ChainLoop(leaves[Len(leaves)], SubSeqOrEmpty(leaves, 1, Len(leaves) - 1),
              [nodes |-> << >>, weights |-> << >>, edges |-> << >>, steps |-> 0],
              leaf_distances)

\* tree.iter_descendants(): every node but the root, level by level.
RECURSIVE LevelsFrom(_, _, _)
LevelsFrom(paths, d, maxd) ==
    IF d > maxd THEN << >>
    ELSE SelectSeq(paths, LAMBDA p : Len(p) = d) \o LevelsFrom(paths, d + 1, maxd)

\* Every node but the root in the reverse of the level order: children
\* before their parents.
deepest_first(t) ==
    LET paths == AllPaths(t)
    IN  Reverse(LevelsFrom(paths, 1, MaxOf({ Len(paths[k]) : k \in 1..Len(paths) })))

iter_descendants(t) ==
    LET paths == AllPaths(t)
    IN  LevelsFrom(paths, 1, MaxOf({ Len(paths[k]) : k \in 1..Len(paths) }))

\* The least distance between two leaves of the node, in place of the
\* largest.
LeastHeight(node, leaf_distances) ==
    LET pairs == Combinations2(get_leaf_names(node))
    IN  IF pairs = << >> THEN 0
        ELSE -MaxOf({ -leaf_distances[pairs[k]] : k \in 1..Len(pairs) })

\* The age of a node: the largest distance between two of its leaves, 0 for
\* a leaf.
NodeHeight(node, leaf_distances) ==
    LET pairs == Combinations2(get_leaf_names(node))
    IN  IF pairs = << >> THEN 0
        ELSE MaxOf({ leaf_distances[pairs[k]] : k \in 1..Len(pairs) })

\* The branch lengths left as the nodes were made.
KeepBranchLengths(tree, order, k, root_age, leaf_distances) == tree

\* The loop that sets the branch lengths, over the nodes in the given order,
\* from the k-th on.
RECURSIVE SetBranchLengths(_, _, _, _, _)
SetBranchLengths(tree, order, k, root_age, leaf_distances) ==
    IF k > Len(order) THEN tree
    ELSE LET leaf        == order[k]
             node_height == NodeHeight(NodeAt(tree, leaf), leaf_distances)
             age_anc     == DistFromRoot(tree, SubSeqOrEmpty(leaf, 1, Len(leaf) - 1))
             age_curr    == root_age - node_height
         IN  SetBranchLengths(SetDist(tree, leaf, age_curr - age_anc),
                              order, k + 1, root_age, leaf_distances)

\* The loop taking from the k-th leaf the entry after its own.
RECURSIVE ShiftedLeafBranches(_, _, _, _)
ShiftedLeafBranches(tree, leaves, vector, k) ==
    IF k > Len(leaves) THEN tree
    ELSE LET tree_node == SearchName(tree, leaves[k])
         IN  ShiftedLeafBranches(
                 SetDist(tree, tree_node, NodeAt(tree, tree_node).dist - vector[k + 1]),
                 leaves, vector, k + 1)

\* The leaf branches left as the branch-length loop set them.
KeepLeafBranches(tree, leaves, vector, k) == tree

\* The loop that takes the vector's first entries off the leaf branches.
RECURSIVE SetLeafBranches(_, _, _, _)
SetLeafBranches(tree, leaves, vector, k) ==
    IF k > Len(leaves) THEN tree
    ELSE LET tree_node == SearchName(tree, leaves[k])
         IN  SetLeafBranches(
                 SetDist(tree, tree_node, NodeAt(tree, tree_node).dist - vector[k]),
                 leaves, vector, k + 1)

\* One call of vector2tree.  err tells how the call ended, tree is the tree
\* it returns; the other fields are the locals of the call.
vector2tree(vector, leaves, hashOrder) ==
    LET num_leaves == NumLeaves(Len(vector))
        names      == EffectiveLeaves(leaves, num_leaves)
    IN  IF num_leaves < 0
        THEN [err |-> "invalid vector length", tree |-> NoTree,
              num_leaves |-> num_leaves, leaves |-> << >>,
              path_graph |-> [nodes |-> << >>, weights |-> << >>, edges |-> << >>, steps |-> 0],
              skeleton |-> NoTree, ultrametric |-> NoTree, root_age |-> 0]
        ELSE IF ~names.ok
        THEN [err |-> "leaf count mismatch", tree |-> NoTree,
              num_leaves |-> num_leaves, leaves |-> names.names,
              path_graph |-> [nodes |-> << >>, weights |-> << >>, edges |-> << >>, steps |-> 0],
              skeleton |-> NoTree, ultrametric |-> NoTree, root_age |-> 0]
        ELSE LET leaf_distances == LeafDistances(vector, names.names, num_leaves)
                 path_graph     == PathGraph(names.names, leaf_distances)
                 skeleton       == pathgraph2tree(path_graph, hashOrder)
                 root_age       == MaxOf(Range(leaf_distances))
                 ultrametric    == SetBranchLengths(skeleton, iter_descendants(skeleton),
                                                    1, root_age, leaf_distances)
                 tree           == SetLeafBranches(ultrametric, names.names, vector, 1)
             IN  [err |-> "none", tree |-> tree,
                  num_leaves |-> num_leaves, leaves |-> names.names,
                  path_graph |-> path_graph,
                  skeleton |-> skeleton, ultrametric |-> ultrametric,
                  root_age |-> root_age]

---------------------------------------------------------------------------
\* newick.py
\*
\* A text is a sequence of characters, each a string of length one.  A float
\* is a whole number of units of 1e-7, as everywhere in this module.

\* The characters of the texts, in the order of their code points.
CharOrder ==
    << " ", "(", ")", ",", ".", "0", "1", "2", "3", "4", "5", "6", "7", "8",
       "9", ":", ";", "A", "B", "C", "D", "E", "N", "e", "n", "o", "x" >>

CharRank(c) == CHOOSE i \in DOMAIN CharOrder : CharOrder[i] = c

DigitChars == << "0", "1", "2", "3", "4", "5", "6", "7", "8", "9" >>

IsDigit(c) == \E i \in DOMAIN DigitChars : DigitChars[i] = c

DigitValue(c) == (CHOOSE i \in DOMAIN DigitChars : DigitChars[i] = c) - 1

\* \s
IsSpace(c) == c = " "

\* [^:;,()\s]
NameChar(c) == c \notin { ":", ";", ",", "(", ")", " " }

\* [\d.]
LengthChar(c) == IsDigit(c) \/ c = "."

\* [,);]
DelimChar(c) == c \in { ",", ")", ";" }

\* The value groups(0) gives for a group that did not take part in the match.
Unmatched == "<0>"

\* c is of the class of characters: of a name, of a length, or a space.
InClass(c, class) ==
    CASE class = "name"   -> NameChar(c)
      [] class = "length" -> LengthChar(c)
      [] OTHER            -> IsSpace(c)

\* Where the longest run of characters of a class that starts at pos ends:
\* the position after its last character.
RunEnd(s, pos, class) ==
    CHOOSE e \in pos..(Len(s) + 1) :
        /\ \A k \in pos..(e - 1) : InClass(s[k], class)
        /\ e = Len(s) + 1 \/ ~InClass(s[e], class)

\* The match of the regular expression of line 7 that starts at pos, if any:
\* a name (possibly empty), an optional colon and length, and a delimiter; or
\* else any one character that is not a space.  next is where the search for
\* the following match goes on.
MatchAt(s, pos) ==
    LET e1 == RunEnd(s, pos, "name")
        p1 == RunEnd(s, e1, "space")
        p2 == IF p1 <= Len(s) /\ s[p1] = ":" THEN RunEnd(s, p1 + 1, "space") ELSE 0
        p3 == IF p2 > 0 THEN RunEnd(s, p2, "length") ELSE 0
        p4 == IF p3 > p2 THEN RunEnd(s, p3, "space") ELSE 0
    IN  IF p4 > 0 /\ p4 <= Len(s) /\ DelimChar(s[p4])
        THEN [matched |-> TRUE, named |-> TRUE,
              name |-> SubSeqOrEmpty(s, pos, e1 - 1),
              hasLength |-> TRUE, length |-> SubSeqOrEmpty(s, p2, p3 - 1),
              delim |-> s[p4], ch |-> Unmatched, next |-> p4 + 1]
        ELSE IF e1 <= Len(s) /\ DelimChar(s[e1])
        THEN [matched |-> TRUE, named |-> TRUE,
              name |-> SubSeqOrEmpty(s, pos, e1 - 1),
              hasLength |-> FALSE, length |-> << >>,
              delim |-> s[e1], ch |-> Unmatched, next |-> e1 + 1]
        ELSE IF ~IsSpace(s[pos])
        THEN [matched |-> TRUE, named |-> FALSE, name |-> << >>,
              hasLength |-> FALSE, length |-> << >>,
              delim |-> Unmatched, ch |-> s[pos], next |-> pos + 1]
        ELSE [matched |-> FALSE, named |-> FALSE, name |-> << >>,
              hasLength |-> FALSE, length |-> << >>,
              delim |-> Unmatched, ch |-> Unmatched, next |-> pos + 1]

\* re.finditer over the text: the matches from pos on, left to right.
RECURSIVE TokensFrom(_, _)
TokensFrom(s, pos) ==
    IF pos > Len(s) THEN << >>
    ELSE LET m == MatchAt(s, pos)
         IN  (IF m.matched THEN << m >> ELSE << >>) \o TokensFrom(s, m.next)

\* The digits of s read as a whole number.
RECURSIVE DigitsValue(_)
DigitsValue(s) ==
    IF s = << >> THEN 0
    ELSE 10 * DigitsValue(SubSeqOrEmpty(s, 1, Len(s) - 1)) + DigitValue(s[Len(s)])

\* float(length) for a text of digits and dots: a ValueError unless it has a
\* digit and at most one dot.  Digits past the seventh decimal are not kept.
FloatOf(s) ==
    LET dots == { k \in DOMAIN s : s[k] = "." }
        dot  == IF dots = {} THEN Len(s) + 1 ELSE CHOOSE k \in dots : TRUE
        int  == SubSeqOrEmpty(s, 1, dot - 1)
        frac == SubSeqOrEmpty(s, dot + 1, Len(s))
        kept == SubSeqOrEmpty(frac, 1, IF Len(frac) < 7 THEN Len(frac) ELSE 7)
    IN  IF Cardinality(dots) > 1 \/ Cardinality(dots) = Len(s)
        THEN [ok |-> FALSE, val |-> 0]
        ELSE [ok |-> TRUE,
              val |-> DigitsValue(int) * Pow10(7) + DigitsValue(kept) * Pow10(7 - Len(kept))]

\* The decimal digits of a whole number.
RECURSIVE DigitsOf(_)
DigitsOf(n) ==
    IF n < 10 THEN << DigitChars[n + 1] >>
    ELSE Append(DigitsOf(n \div 10), DigitChars[(n % 10) + 1])

\* The decimals of a fraction of k digits, without the zeros at its end.
RECURSIVE Decimals(_, _)
Decimals(frac, k) ==
    IF frac = 0 THEN << >>
    ELSE << DigitChars[(frac \div Pow10(k - 1)) + 1] >>
             \o Decimals(frac % Pow10(k - 1), k - 1)

\* str(x) for a float x of at least 1e-4 or zero: "1.0", "1.5", "0.25".
ReprFloat(val) ==
    LET frac == Decimals(val % Pow10(7), 7)
    IN  DigitsOf(val \div Pow10(7)) \o << "." >>
            \o (IF frac = << >> THEN << "0" >> ELSE frac)

\* The length of a node: None, or a float.
NoLength == [none |-> TRUE, val |-> 0]

NoNode ==
    [id |-> -1, named |-> FALSE, name |-> << >>, length |-> NoLength,
     parentid |-> -1, children |-> << >>]

\* How a call of recurse ends when it raises.
RecurseRaises(e) ==
    [err |-> e, node |-> NoNode, delim |-> Unmatched, nextid |-> 0, pos |-> 0]

\* Lines 21-31: the node built from the token that carries its name and
\* length, returned with the token's delimiter.
RecurseReturns(tok, thisid, parentid, children, nextid, pos) ==
    IF tok.hasLength /\ ~FloatOf(tok.length).ok THEN RecurseRaises("ValueError")
    ELSE [err    |-> "none",
          node   |-> [id       |-> thisid,
                      named    |-> tok.named,
                      name     |-> tok.name,
                      length   |-> IF tok.hasLength
                                   THEN [none |-> FALSE, val |-> FloatOf(tok.length).val]
                                   ELSE NoLength,
                      parentid |-> parentid,
                      children |-> children],
          delim  |-> tok.delim,
          nextid |-> nextid,
          pos    |-> pos]

\* recurse (lines 10-31) reading the tokens from position pos, and the loop
\* of lines 16-18 from the state (pos, nextid, children, ch).  "ch in '(,'"
\* raises a TypeError when ch is the 0 of an unmatched group.
RECURSIVE recurse(_, _, _, _)
RECURSIVE ChildrenLoop(_, _, _, _, _, _)
recurse(tokens, pos, nextid, parentid) ==
    IF pos > Len(tokens) THEN RecurseRaises("StopIteration")
    ELSE LET tok    == tokens[pos]
             thisid == nextid
         IN  IF tok.ch = "("
             THEN LET loop == ChildrenLoop(tokens, pos + 1, nextid, thisid, << >>, "(")
                  IN  IF loop.err # "none" THEN RecurseRaises(loop.err)
                      ELSE IF loop.pos > Len(tokens) THEN RecurseRaises("StopIteration")
                      ELSE RecurseReturns(tokens[loop.pos], thisid, parentid,
                                          loop.children, loop.nextid, loop.pos + 1)
             ELSE RecurseReturns(tok, thisid, parentid, << >>, nextid, pos + 1)
ChildrenLoop(tokens, pos, nextid, thisid, children, ch) ==
    IF ch = Unmatched
    THEN [err |-> "TypeError", children |-> children, nextid |-> nextid, pos |-> pos]
    ELSE IF ch \in { "(", "," }
    THEN LET r == recurse(tokens, pos, nextid + 1, thisid)
         IN  IF r.err # "none"
             THEN [err |-> r.err, children |-> children, nextid |-> nextid, pos |-> pos]
             ELSE ChildrenLoop(tokens, r.pos, r.nextid, thisid,
                               Append(children, r.node), r.delim)
    ELSE [err |-> "none", children |-> children, nextid |-> nextid, pos |-> pos]

\* parse(newick): the tokens of newick + ";" and the node recurse() returns.
parse(newick) ==
    LET r == recurse(TokensFrom(newick \o << ";" >>, 1), 1, 0, -1)
    IN  [err |-> r.err, tree |-> r.node]

\* a < b for two names, as Python compares strings.
RECURSIVE NameBefore(_, _)
NameBefore(a, b) ==
    IF b = << >> THEN FALSE
    ELSE IF a = << >> THEN TRUE
    ELSE IF Head(a) # Head(b) THEN CharRank(Head(a)) < CharRank(Head(b))
    ELSE NameBefore(Tail(a), Tail(b))

\* sorted(children, key=lambda n: n["name"]): a stable sort, so nodes of the
\* same name stay in the order they had.
RECURSIVE SortedByName(_)
SortedByName(children) ==
    IF children = << >> THEN << >>
    ELSE LET last == children[Len(children)]
             init == SortedByName(SubSeqOrEmpty(children, 1, Len(children) - 1))
             keep == { k \in DOMAIN init : ~NameBefore(last.name, init[k].name) }
             at   == Cardinality(keep)
         IN  SubSeqOrEmpty(init, 1, at) \o << last >> \o SubSeqOrEmpty(init, at + 1, Len(init))

\* mysort (lines 42-46)
RECURSIVE mysort(_)
mysort(node) ==
    [node EXCEPT !.children =
        SortedByName(Tuple([i \in 1..Len(node.children) |-> mysort(node.children[i])]))]

\* ",".join(elms)
RECURSIVE Join(_)
Join(elms) ==
    IF elms = << >> THEN << >>
    ELSE IF Len(elms) = 1 THEN elms[1]
    ELSE elms[1] \o << "," >> \o Join(Tail(elms))

\* myout (lines 49-56): a node without children is written as name:length,
\* any other as its children in parentheses, its own name and length left
\* out.
RECURSIVE myout(_)
myout(node) ==
    IF node.children = << >>
    THEN (IF node.named THEN node.name ELSE << "0" >>) \o << ":" >>
             \o (IF node.length.none THEN << "N", "o", "n", "e" >>
                 ELSE ReprFloat(node.length.val))
    ELSE << "(" >>
             \o Join(Tuple([i \in 1..Len(node.children) |-> myout(node.children[i])]))
             \o << ")" >>

\* sorted_newick of newick.py (lines 36-59); parsed is what parse returned
\* to it (NoNode when parse raised).
sorted_newick(tree) ==
    LET p == parse(tree)
    IN  IF p.err # "none" THEN [err |-> p.err, text |-> << >>, parsed |-> p.tree]
        ELSE [err |-> "none", text |-> myout(mysort(p.tree)) \o << ";" >>,
              parsed |-> p.tree]

---------------------------------------------------------------------------
\* The callers' inputs

\* The branch lengths of the leaves of the callers' trees: zero and a length
\* of eight significant digits (1.0000049).
LeafLengths == { 0, 10000049 }

\* The branch lengths of the internal nodes of the callers' trees: zero, a
\* length below epsilon (5e-7), epsilon itself (1e-6) and a length above it
\* (2e-6).
InternalLengths == { 0, 5, 10, 20 }

\* The first n names.
FirstNames(n) == Tuple([i \in 1..n |-> NameOrder[i]])

MinName(S) == CHOOSE x \in S : \A y \in S : Rank(x) <= Rank(y)

\* The partitions of a set of names into blocks, each a sequence of blocks in
\* the order of their least names.
RECURSIVE PartitionsOf(_)
PartitionsOf(S) ==
    IF S = {} THEN { << >> }
    ELSE LET x == MinName(S)
         IN  UNION { { << B \cup {x} >> \o rest :
                         rest \in PartitionsOf(S \ (B \cup {x})) } :
                     B \in SUBSET (S \ {x}) }

\* The trees over the leaf set S: a leaf, or a node over two or more
\* subtrees.
RECURSIVE TreesOver(_)
RECURSIVE Forests(_, _)
TreesOver(S) ==
    IF Cardinality(S) = 1
    THEN { Leaf(CHOOSE x \in S : TRUE, d) : d \in LeafLengths }
    ELSE UNION { { Node(d, f) : d \in InternalLengths, f \in Forests(part, 1) } :
                 part \in { q \in PartitionsOf(S) : Len(q) >= 2 } }
Forests(part, i) ==
    IF i > Len(part) THEN { << >> }
    ELSE { << t >> \o f : t \in TreesOver(part[i]), f \in Forests(part, i + 1) }

\* The ways to split the first n names under the root.
RootPartitions(n) == { q \in PartitionsOf(Range(FirstNames(n))) : Len(q) >= 2 }

\* tree is a tree handed to tree2vector: 2..MaxLeaves uniquely named leaves,
\* every internal node with two or more children, the root's own length 0.
IsInputTree(tree) ==
    \E n \in 2..MaxLeaves : \E part \in RootPartitions(n) :
        \E f \in Forests(part, 1) : tree = Node(0, f)

\* The first entries (paddings) of the callers' vectors: zero and 2e-6.
Pads == { 0, 20 }

\* The pair entries (heights) of the callers' vectors: zero, 5e-7 and 2e-6.
Heights == { 0, 5, 20 }

\* Longest vector handed to vector2tree to try its length check.
MaxLength == 16

\* The vectors of n leaves.
VectorsOf(n) ==
    { p \o h : p \in [1..n -> Pads], h \in [1..(vector_length(n) - n) -> Heights] }

\* The vectors of n leaves whose heights are zero or above epsilon.
CoarseVectorsOf(n) ==
    { p \o h : p \in [1..n -> Pads],
               h \in [1..(vector_length(n) - n) -> { x \in Heights : x = 0 \/ x > Epsilon }] }

\* The vectors of two leaves whose height has eight significant digits
\* (1.0000049).
LongVectors == { p \o << 10000049 >> : p \in [1..2 -> Pads] }

\* The vector of len zeros.
ZeroVector(len) == Tuple([k \in 1..len |-> 0])

\* The vector of DEVEL.py, lines 10-11: 3.0, 1.5, 3.0, 4.0, 3.0 and the ten
\* heights 8.0, 8.0, 5.0, 3.0, 3.0, 8.0, 8.0, 8.0, 8.0, 5.0.
DevelVector ==
    << 30000000, 15000000, 30000000, 40000000, 30000000,
       80000000, 80000000, 50000000, 30000000, 30000000,
       80000000, 80000000, 80000000, 80000000, 50000000 >>

\* The list with its first element moved to the end.
Rotated(s) == IF s = << >> THEN s ELSE Tail(s) \o << Head(s) >>

\* The list with its first two elements exchanged.
Swapped(s) == IF Len(s) < 2 THEN s ELSE << s[2], s[1] >> \o SubSeqOrEmpty(s, 3, Len(s))

\* The leaves arguments other than None and the n names in sorted order: the
\* empty list, a name too few, a name too many, and the names in three other
\* orders: reversed, rotated, the first two exchanged.
OtherLeafArgs(n) ==
    { LeafList(<< >>), LeafList(FirstNames(n - 1)),
      LeafList(FirstNames(n + 1)), LeafList(Reverse(FirstNames(n))),
      LeafList(Rotated(FirstNames(n))), LeafList(Swapped(FirstNames(n))) }

\* Most leaves of a tree written as a Newick text.
MaxNewickLeaves == 4

\* The branch length written for a leaf: "1" for every leaf (plan 1), or "2"
\* for A, C, E and "1.5" for B, D (plan 2).
LengthTexts(name, plan) ==
    IF plan = 1 THEN << "1" >>
    ELSE IF Rank(name) % 2 = 1 THEN << "2" >>
    ELSE << "1", ".", "5" >>

\* The trees over the leaf set S to be written as Newick texts: a branch
\* length is the text of a number, "1" for every internal node.
RECURSIVE NewickTreesOver(_, _)
RECURSIVE NewickForests(_, _, _)
NewickTreesOver(S, plan) ==
    IF Cardinality(S) = 1
    THEN { Leaf(CHOOSE x \in S : TRUE, LengthTexts(CHOOSE x \in S : TRUE, plan)) }
    ELSE UNION { { Node(<< "1" >>, f) : f \in NewickForests(part, 1, plan) } :
                 part \in { q \in PartitionsOf(S) : Len(q) >= 2 } }
NewickForests(part, i, plan) ==
    IF i > Len(part) THEN { << >> }
    ELSE { << t >> \o f : t \in NewickTreesOver(part[i], plan),
                          f \in NewickForests(part, i + 1, plan) }

\* The trees that differ from t by a permutation of the children at any set
\* of nodes, t included.
RECURSIVE Permuted(_)
RECURSIVE PermutedEach(_, _)
Permuted(t) ==
    IF IsLeaf(t) THEN { t }
    ELSE LET k     == Len(t.children)
             perms == { p \in [1..k -> 1..k] : \A i \in 1..k : \E j \in 1..k : p[j] = i }
         IN  { [t EXCEPT !.children = Tuple([i \in 1..k |-> f[p[i]]])] :
                   f \in PermutedEach(t.children, 1), p \in perms }
PermutedEach(children, i) ==
    IF i > Len(children) THEN { << >> }
    ELSE { << c >> \o rest : c \in Permuted(children[i]),
                              rest \in PermutedEach(children, i + 1) }

\* The Newick text of a tree, without the closing semicolon: name:length for
\* a leaf, (children):length for an internal node, (children) for the root.
RECURSIVE NewickText(_, _)
NewickText(t, isRoot) ==
    IF IsLeaf(t) THEN << t.name >> \o << ":" >> \o t.dist
    ELSE << "(" >>
             \o Join(Tuple([i \in 1..Len(t.children) |->
                               NewickText(t.children[i], FALSE)]))
             \o << ")" >>
             \o (IF isRoot THEN << >> ELSE << ":" >> \o t.dist)

\* The trees that differ from t in the branch length of one node other than
\* the root, written "3" instead.
Relengthened(t) ==
    { SetDist(t, AllPaths(t)[k], << "3" >>) : k \in 2..Len(AllPaths(t)) }

\* The text without its k-th character.
DropChar(s, k) == SubSeqOrEmpty(s, 1, k - 1) \o SubSeqOrEmpty(s, k + 1, Len(s))

\* Malformed variants of a well-formed text s that ends in ";": a
\* parenthesis left out, a closing parenthesis too many at the end, an
\* opening parenthesis too many at the start, the closing ";" and the last
\* parenthesis left out, and a branch length that begins with the letter x.
MalformedTexts(s) ==
    { DropChar(s, k) : k \in { j \in DOMAIN s : s[j] \in { "(", ")" } } }
    \cup { SubSeqOrEmpty(s, 1, Len(s) - 1) \o << ")", ";" >>,
           << "(" >> \o s,
           SubSeqOrEmpty(s, 1, Len(s) - 2) }
    \cup { [s EXCEPT ![k + 1] = "x"] : k \in { j \in DOMAIN s : s[j] = ":" } }

---------------------------------------------------------------------------
\* The state: a caller of the codec

VARIABLES
    flow,         \* "tree": the caller encodes a tree and decodes the vector;
                  \* "vector": the caller decodes a vector and encodes the tree;
                  \* "newick": the caller canonicalises two Newick texts
    pc,           \* "start", "encoded", "decoded", "sorting", "done", "failed"
    tree0,        \* the tree as the caller first had it
    source_tree,  \* the caller's tree, as the calls have left it
    components,   \* the components flag the caller passes to tree2vector
    vector,       \* the vector the caller passes to vector2tree
    leaves,       \* the leaves argument the caller passes to vector2tree
    hashOrder,    \* whether Python's set order reverses small components
    enc,          \* the call of tree2vector
    dec,          \* the call of vector2tree
    newick,       \* the Newick texts the caller passes to sorted_newick
    canon         \* the calls of sorted_newick so far, one per text

vars == << flow, pc, tree0, source_tree, components, vector, leaves, hashOrder,
           enc, dec, newick, canon >>

NoEnc == [result |-> << >>]

NoDec == [err |-> "not called"]

\* The caller starts with a tree.
Init ==
    /\ flow = "tree"
    /\ pc = "start"
    /\ IsInputTree(tree0)
    /\ source_tree = tree0
    /\ components \in BOOLEAN
    /\ vector = << >>
    /\ leaves = NoLeaves
    /\ hashOrder = FALSE
    /\ enc = NoEnc
    /\ dec = NoDec
    /\ newick = << >>
    /\ canon = << >>

\* vector = tree2vector(source_tree); in the tree flow the caller then takes
\* leaves = sorted(leaf names), as the tests do.
Tree2Vector ==
    /\ \/ flow = "tree" /\ pc = "start"
       \/ flow = "vector" /\ pc = "decoded"
    /\ enc' = tree2vector(source_tree, components, Epsilon)
    /\ source_tree' = enc'.source
    /\ IF flow = "tree"
       THEN /\ vector' = enc'.lengths \o enc'.ultrametric
            /\ leaves' = LeafList(Sorted(get_leaf_names(source_tree)))
            /\ pc' = "encoded"
       ELSE /\ UNCHANGED << vector, leaves >>
            /\ pc' = "done"
    /\ UNCHANGED << flow, tree0, components, hashOrder, dec, newick, canon >>

\* tree = vector2tree(vector, leaves)
Vector2Tree ==
    /\ \/ flow = "vector" /\ pc = "start"
       \/ flow = "tree" /\ pc = "encoded"
    /\ dec' = vector2tree(vector, leaves, hashOrder)
    /\ pc' = IF dec'.err # "none" THEN "failed"
             ELSE IF flow = "vector" THEN "decoded" ELSE "done"
    /\ source_tree' = IF flow = "vector" /\ dec'.err = "none"
                      THEN dec'.tree ELSE source_tree
    /\ UNCHANGED << flow, tree0, components, vector, leaves, hashOrder, enc,
                    newick, canon >>

Next == Tree2Vector \/ Vector2Tree

Spec == Init /\ [][Next]_vars

\* The caller starts with a vector and a leaves argument: every vector of
\* 2..MaxLeaves leaves with its names in sorted order; those with heights
\* zero or above epsilon with None; the vectors without padding with the
\* other leaves arguments; zero vectors of
\* every length up to MaxLength with None and with 0..5 names; the vector of
\* DEVEL.py; vectors of two leaves with a height of eight significant digits.
InitVector ==
    /\ flow = "vector"
    /\ pc = "start"
    /\ \/ \E n \in 2..MaxLeaves :
            /\ vector \in VectorsOf(n)
            /\ leaves = LeafList(FirstNames(n))
       \/ \E n \in 2..MaxLeaves :
            /\ vector \in CoarseVectorsOf(n)
            /\ leaves = NoLeaves
       \/ \E n \in 2..MaxLeaves :
            /\ vector \in { v \in VectorsOf(n) : \A k \in 1..n : v[k] = 0 }
            /\ leaves \in OtherLeafArgs(n)
       \/ \E len \in 0..MaxLength :
            /\ vector = ZeroVector(len)
            /\ leaves \in { NoLeaves } \cup { LeafList(FirstNames(k)) : k \in 0..5 }
       \/ /\ vector = DevelVector
          /\ leaves = LeafList(FirstNames(5))
       \/ /\ vector \in LongVectors
          /\ leaves = LeafList(FirstNames(2))
    /\ hashOrder \in IF NumLeaves(Len(vector)) >= 5 THEN BOOLEAN ELSE { FALSE }
    /\ tree0 = NoTree
    /\ source_tree = NoTree
    /\ components = FALSE
    /\ enc = NoEnc
    /\ dec = NoDec
    /\ newick = << >>
    /\ canon = << >>

SpecVector == InitVector /\ [][Next]_vars

\* The caller starts with two Newick texts.  The first is the text of a
\* tree of 2..MaxNewickLeaves leaves (tree0).  The second is the text of the
\* same tree with the children permuted at any set of nodes, or with one
\* branch length changed, or of another tree over the same leaves (up to
\* MaxLeaves leaves), source_tree being that tree; or it is a malformed
\* variant of the first text, and source_tree is no tree.
InitNewick ==
    /\ flow = "newick"
    /\ pc = "start"
    /\ \E n \in 2..MaxNewickLeaves : \E plan \in 1..2 :
           \E part \in RootPartitions(n) : \E f \in NewickForests(part, 1, plan) :
               /\ tree0 = Node(<< >>, f)
               /\ \/ source_tree \in Permuted(tree0)
                  \/ source_tree \in Relengthened(tree0)
                  \/ /\ n <= MaxLeaves
                     /\ \E part2 \in RootPartitions(n) :
                            \E g \in NewickForests(part2, 1, plan) :
                                source_tree = Node(<< >>, g)
                  \/ source_tree = NoTree
               /\ IF source_tree = NoTree
                  THEN \E bad \in MalformedTexts(NewickText(tree0, TRUE) \o << ";" >>) :
                           newick = << NewickText(tree0, TRUE) \o << ";" >>, bad >>
                  ELSE newick = << NewickText(tree0, TRUE) \o << ";" >>,
                                   NewickText(source_tree, TRUE) \o << ";" >> >>
    /\ canon = << >>
    /\ components = FALSE
    /\ vector = << >>
    /\ leaves = NoLeaves
    /\ hashOrder = FALSE
    /\ enc = NoEnc
    /\ dec = NoDec

\* canon.append(sorted_newick(text)) for the next of the caller's texts.
SortedNewick ==
    /\ flow = "newick"
    /\ Len(canon) < Len(newick)
    /\ canon' = Append(canon, sorted_newick(newick[Len(canon) + 1]))
    /\ pc' = IF Len(canon') = Len(newick) THEN "done" ELSE "sorting"
    /\ UNCHANGED << flow, tree0, source_tree, components, vector, leaves,
                    hashOrder, enc, dec, newick >>

NextNewick == SortedNewick

SpecNewick == InitNewick /\ [][NextNewick]_vars

---------------------------------------------------------------------------
\* Measures on trees used to state the claims

\* The tolerance 1e-6 of the round trip.
Tolerance == Epsilon

\* The names below the node at path.
Clade(t, path) == Range(get_leaf_names(NodeAt(t, path)))

\* The paths of the nodes other than the root.
NonRootPaths(t) == Range(AllPaths(t)) \ { << >> }

\* The distance from the root to the common ancestor of leaves a and b (to
\* the leaf itself when a = b).
MrcaDepth(t, a, b) ==
    DistFromRoot(t, CommonPrefix(SearchName(t, a), SearchName(t, b)))

\* Equal up to child order: the same leaf names, the same clades, and the
\* branch above every clade the same within tol.
SameTree(t1, t2, tol) ==
    /\ Sorted(get_leaf_names(t1)) = Sorted(get_leaf_names(t2))
    /\ Len(AllPaths(t1)) = Len(AllPaths(t2))
    /\ { Clade(t1, p) : p \in NonRootPaths(t1) } = { Clade(t2, p) : p \in NonRootPaths(t2) }
    /\ \A p1 \in NonRootPaths(t1) : \A p2 \in NonRootPaths(t2) :
           Clade(t1, p1) = Clade(t2, p2)
               => Abs(NodeAt(t1, p1).dist - NodeAt(t2, p2).dist) <= tol

\* The same leaf names and, within tol, the same distance from the root to
\* every leaf and to the common ancestor of every pair of leaves.
SameDepths(t1, t2, tol) ==
    /\ Sorted(get_leaf_names(t1)) = Sorted(get_leaf_names(t2))
    /\ \A a \in Range(get_leaf_names(t1)) : \A b \in Range(get_leaf_names(t1)) :
           Abs(MrcaDepth(t1, a, b) - MrcaDepth(t2, a, b)) <= tol

\* Every internal node has exactly two children.
IsBinary(t) ==
    \A p \in Range(AllPaths(t)) :
        IsLeaf(NodeAt(t, p)) \/ Len(NodeAt(t, p).children) = 2

\* Every internal node but the root has a branch longer than eps.
InternalBranchesAbove(t, eps) ==
    \A p \in NonRootPaths(t) : IsLeaf(NodeAt(t, p)) \/ NodeAt(t, p).dist > eps

RoundTripDone == flow = "tree" /\ pc = "done"

---------------------------------------------------------------------------
---------------------------------------------------------------------------
\* Measures on vectors used to state the claims

MinOf(S) == CHOOSE m \in S : \A x \in S : m <= x

Indices(n) == Tuple([i \in 1..n |-> i])

\* The slot of the pair of the i-th and the j-th leaf (i < j) in a vector of
\* n leaves.
PairSlot(n, i, j) ==
    LET pairs == Combinations2(Indices(n))
    IN  n + (CHOOSE k \in 1..Len(pairs) : pairs[k] = << i, j >>)

HeightAt(v, n, i, j) == IF i < j THEN v[PairSlot(n, i, j)] ELSE v[PairSlot(n, j, i)]

SmallestPadding(v, n) == MinOf({ v[i] : i \in 1..n })

\* The three-point condition on the heights: of the three heights among any
\* three leaves, none exceeds both others.
ThreePoint(v, n) ==
    \A i \in 1..n : \A j \in 1..n : \A k \in 1..n :
        (i # j /\ i # k /\ j # k)
            => HeightAt(v, n, i, j) <= Max2(HeightAt(v, n, i, k), HeightAt(v, n, j, k))

\* The vector read off a tree from its root-to-node distances alone: the
\* same for two trees that are equal up to child order.
ReadBack(t, names) ==
    LET age   == MaxOf({ MrcaDepth(t, names[i], names[i]) : i \in DOMAIN names })
        pairs == Combinations2(names)
    IN  Tuple([i \in DOMAIN names |-> age - MrcaDepth(t, names[i], names[i])])
        \o Tuple([k \in DOMAIN pairs |-> age - MrcaDepth(t, pairs[k][1], pairs[k][2])])

\* len is n(n+1)/2 for a whole n >= 2.
IsTriangular(len) == \E n \in 2..(len + 2) : vector_length(n) = len

Decoded == flow = "vector" /\ pc \in { "decoded", "done" }

---------------------------------------------------------------------------
\* C2 as stated: for a fixed list of leaf names, two different vectors of the
\* same valid length with non-negative entries never decode to trees that are
\* equal up to child order.
C2_InjectiveOnNonNegative ==
    (Decoded /\ dec.num_leaves <= MaxLeaves) =>
        \A other \in VectorsOf(dec.num_leaves) :
            other # vector
                => ~SameTree(vector2tree(other, leaves, hashOrder).tree, dec.tree, 0)

\* C2 as amended: vector2tree is injective on the vectors with non-negative
\* entries whose smallest padding is 0 and whose heights satisfy the
\* three-point condition.  Such a vector is read back from the root-to-node
\* distances of its decoded tree, which two trees equal up to child order
\* share, so two such vectors with equal decoded trees are the same vector.
C2_InjectiveOnNormalized ==
    (Decoded /\ SmallestPadding(vector, dec.num_leaves) = 0
             /\ ThreePoint(vector, dec.num_leaves))
        => ReadBack(dec.tree, dec.leaves) = vector

\* C2 witness: a decoded vector of three leaves with smallest padding 0, a
\* positive padding and heights of two values that satisfy the three-point
\* condition.
C2_Witness ==
    /\ Decoded
    /\ dec.num_leaves = 3
    /\ SmallestPadding(vector, 3) = 0
    /\ ThreePoint(vector, 3)
    /\ vector[2] > 0
    /\ vector[4] # vector[6]

---------------------------------------------------------------------------
DevelCase ==
    flow = "vector" /\ vector = DevelVector /\ leaves = LeafList(FirstNames(5))

\* C3 as stated: the vector of DEVEL.py with the leaves A..E decodes without
\* error into a tree with exactly the leaves A..E, and tree2vector of that
\* tree returns the same 15 entries within 1e-6.
C3_DevelSameVector ==
    DevelCase =>
        /\ pc # "failed"
        /\ pc \in { "decoded", "done" }
               => dec.err = "none" /\ Sorted(get_leaf_names(dec.tree)) = FirstNames(5)
        /\ pc = "done"
               => /\ Len(enc.result) = 15
                  /\ \A k \in 1..15 : Abs(enc.result[k] - vector[k]) <= Tolerance

\* C3 as amended: the vector of DEVEL.py with the leaves A..E decodes without
\* error into a tree with exactly the leaves A..E, and tree2vector of that
\* tree returns the 15 entries each lowered by 1.5, the smallest padding of
\* the vector, within 1e-6.
C3_DevelShiftedVector ==
    DevelCase =>
        /\ pc # "failed"
        /\ pc \in { "decoded", "done" }
               => dec.err = "none" /\ Sorted(get_leaf_names(dec.tree)) = FirstNames(5)
        /\ pc = "done"
               => /\ Len(enc.result) = 15
                  /\ \A k \in 1..15 :
                         Abs(enc.result[k] - (vector[k] - 15000000)) <= Tolerance

\* C3 witness: the vector of DEVEL.py decoded and encoded again, the padding
\* of B returned as 0.
C3_Witness == DevelCase /\ pc = "done" /\ enc.result[2] = 0 /\ enc.result[6] = 65000000

---------------------------------------------------------------------------
\* C4: vector2tree raises "Invalid vector length", whatever the leaves
\* argument and with no tree built, exactly when the length of the vector is
\* not n(n+1)/2 for a whole n >= 2; otherwise the check passes and the leaf
\* count n has n(n+1)/2 equal to the length.
C4_ShapeValidation ==
    (flow = "vector" /\ pc # "start") =>
        /\ dec.err = "invalid vector length" <=> ~IsTriangular(Len(vector))
        /\ ~IsTriangular(Len(vector))
               => pc = "failed" /\ dec.tree = NoTree /\ dec.skeleton = NoTree
        /\ IsTriangular(Len(vector))
               => dec.num_leaves >= 2 /\ vector_length(dec.num_leaves) = Len(vector)

\* C4 witness: a vector of length 7 refused with four names supplied.
C4_Witness ==
    /\ flow = "vector"
    /\ Len(vector) = 7
    /\ leaves = LeafList(FirstNames(4))
    /\ dec.err = "invalid vector length"

---------------------------------------------------------------------------
\* C5: for a vector of valid length implying n leaves, vector2tree raises the
\* leaf-count-mismatch error for every supplied list of names whose length
\* is not n, the empty list included, and never decodes with other names
\* than the supplied ones.
C5_CardinalityValidation ==
    (flow = "vector" /\ pc # "start" /\ IsTriangular(Len(vector)) /\ ~leaves.none) =>
        /\ Len(leaves.names) # NumLeaves(Len(vector)) => dec.err = "leaf count mismatch"
        /\ dec.err = "none" => dec.leaves = leaves.names

---------------------------------------------------------------------------
\* C6: called without a list of names on a vector of valid length implying n
\* leaves, vector2tree succeeds and the leaves of the tree are named Leaf_0
\* .. Leaf_{n-1}; the depth of Leaf_i is the root age less entry i, and the
\* edge between two leaves in the path graph weighs the entry of their pair
\* in the combination order of (Leaf_0, ..., Leaf_{n-1}).
C6_SyntheticNames ==
    (flow = "vector" /\ pc # "start" /\ IsTriangular(Len(vector)) /\ leaves.none) =>
        LET n     == NumLeaves(Len(vector))
            names == SubSeq(NameOrder, 6, 5 + n)
            slot(name) == CHOOSE i \in 1..n : names[i] = name
        IN  /\ dec.err = "none"
            /\ Sorted(get_leaf_names(dec.tree)) = names
            /\ \A i \in 1..n :
                   MrcaDepth(dec.tree, names[i], names[i]) = dec.root_age - vector[i]
            /\ \A e \in 1..Len(dec.path_graph.weights) :
                   dec.path_graph.weights[e]
                       = HeightAt(vector, n, slot(dec.path_graph.nodes[e]),
                                  slot(dec.path_graph.nodes[e + 1]))

\* C6 witness: a vector of three leaves with different paddings and
\* different heights decoded without names.
C6_Witness ==
    /\ flow = "vector"
    /\ leaves.none
    /\ dec.err = "none"
    /\ dec.num_leaves = 3
    /\ vector[1] # vector[2]
    /\ vector[4] # vector[5]
    /\ get_leaf_names(dec.tree) # << >>

---------------------------------------------------------------------------
Encoded == flow = "tree" /\ pc # "start"

\* The entries tree2vector returns, the two lists of components=True joined.
Entries == IF components THEN enc.result[1] \o enc.result[2] ELSE enc.result

\* The layout the encoder is said to follow, read off tree t: entry i is the
\* greatest root-to-leaf distance less the depth of the i-th leaf in sorted
\* order, entry n+k that distance less the depth of the common ancestor of
\* the k-th pair of the sorted names.
Layout(t) ==
    LET names == Sorted(get_leaf_names(t))
        age   == MaxOf({ MrcaDepth(t, names[i], names[i]) : i \in DOMAIN names })
        pairs == Combinations2(names)
    IN  Tuple([i \in DOMAIN names |-> age - MrcaDepth(t, names[i], names[i])])
        \o Tuple([k \in DOMAIN pairs |-> age - MrcaDepth(t, pairs[k][1], pairs[k][2])])

\* The caller's tree with every branch length written with 6 significant
\* digits.
RECURSIVE SixDigits(_)
SixDigits(t) ==
    [t EXCEPT !.dist = FormatG(t.dist),
              !.children = Tuple([i \in 1..Len(t.children) |->
                                     SixDigits(t.children[i])])]

\* C7 as stated: tree2vector of a tree of n leaves returns n + n(n-1)/2
\* entries, entry i the greatest root-to-leaf distance less the depth of the
\* i-th leaf in sorted order, entry n+k that distance less the depth of the
\* common ancestor of the k-th pair of leaves.
C7_EncoderLayout ==
    Encoded =>
        /\ Len(Entries) = vector_length(Len(get_leaf_names(tree0)))
        /\ Entries = Layout(tree0)

\* C7 as amended: the entries are those of the stated layout measured on the
\* tree whose branch lengths are written with 6 significant digits, and an
\* entry within 1e-6 of zero is returned as exactly 0.
C7_EncoderLayoutSnapped ==
    Encoded =>
        LET n      == Len(get_leaf_names(tree0))
            layout == Layout(SixDigits(tree0))
        IN  /\ Len(Entries) = n + (n * (n - 1)) \div 2
            /\ \A k \in 1..Len(layout) :
                   Entries[k] = IF Abs(layout[k]) <= Epsilon THEN 0 ELSE layout[k]

\* C7 witness: an encoded tree of three leaves with a branch length that
\* changes when written with 6 digits and an entry returned as 0 that was
\* computed as a positive number.
C7_Witness ==
    /\ Encoded
    /\ Len(get_leaf_names(tree0)) = 3
    /\ SixDigits(tree0) # tree0
    /\ \E k \in 1..Len(Entries) : Entries[k] = 0 /\ Layout(SixDigits(tree0))[k] > 0

---------------------------------------------------------------------------
\* C8: after tree2vector, with either components flag, the caller's tree has
\* in every node the children, name and branch length it had before the
\* call; the padding is on the copy the call works on.
C8_CallerTreeUnchanged ==
    flow = "tree" => source_tree = tree0

\* C8 witness: a call that padded a leaf of its working copy.
C8_Witness ==
    /\ Encoded
    /\ components
    /\ enc.tree # enc.copy
    /\ \E i \in 1..Len(enc.rawLengths) : enc.rawLengths[i] > Epsilon

---------------------------------------------------------------------------
\* C9: for a tree of two or more leaves with non-negative branch lengths,
\* every entry tree2vector returns is non-negative, the paddings and the
\* heights alike.
C9_NonNegativeEntries ==
    Encoded => \A k \in 1..Len(Entries) : Entries[k] >= 0

\* C9 witness: an encoded tree of three leaves with a positive padding and a
\* positive height.
C9_Witness ==
    /\ Encoded
    /\ Len(enc.lengths) = 3
    /\ \E i \in 1..3 : enc.lengths[i] > 0
    /\ \E k \in 1..3 : enc.ultrametric[k] > 0

---------------------------------------------------------------------------
\* Measures on Newick trees and texts used to state the claims

\* Two trees written as Newick texts are the same up to child order: the
\* same leaf names, the same clades, and above every clade a branch of the
\* same length.
SameNewickTree(t1, t2) ==
    /\ Sorted(get_leaf_names(t1)) = Sorted(get_leaf_names(t2))
    /\ Len(AllPaths(t1)) = Len(AllPaths(t2))
    /\ { Clade(t1, p) : p \in NonRootPaths(t1) } = { Clade(t2, p) : p \in NonRootPaths(t2) }
    /\ \A p1 \in NonRootPaths(t1) : \A p2 \in NonRootPaths(t2) :
           Clade(t1, p1) = Clade(t2, p2)
               => FloatOf(NodeAt(t1, p1).dist).val = FloatOf(NodeAt(t2, p2).dist).val

\* The number of parentheses open after the first k characters of s, closing
\* ones counted negative.
RECURSIVE OpenAfter(_, _)
OpenAfter(s, k) ==
    IF k = 0 THEN 0
    ELSE OpenAfter(s, k - 1)
             + (IF s[k] = "(" THEN 1 ELSE IF s[k] = ")" THEN -1 ELSE 0)

\* Every closing parenthesis closes an open one and none stays open.
Balanced(s) ==
    /\ \A k \in 0..Len(s) : OpenAfter(s, k) >= 0
    /\ OpenAfter(s, Len(s)) = 0

\* A colon that no digit or dot follows: a branch length that is no number.
HasBadLength(s) ==
    \E k \in DOMAIN s : s[k] = ":" /\ (k = Len(s) \/ ~(IsDigit(s[k + 1]) \/ s[k + 1] = "."))

---------------------------------------------------------------------------
\* C10: two Newick texts that describe the same tree and differ only by a
\* permutation of the children at any set of nodes get the identical
\* canonical text from sorted_newick.
C10_ChildOrderInvariance ==
    (flow = "newick" /\ pc = "done" /\ source_tree # NoTree
        /\ SameNewickTree(tree0, source_tree)) =>
        /\ canon[1].err = "none"
        /\ canon[2].err = "none"
        /\ canon[1].text = canon[2].text

---------------------------------------------------------------------------
\* C11: when newick.sorted_newick gives two trees the same canonical text,
\* the two trees are the same up to child order, the branch lengths of the
\* internal nodes included.
C11_OracleSoundness ==
    (flow = "newick" /\ pc = "done" /\ source_tree # NoTree
        /\ canon[1].err = "none" /\ canon[2].err = "none"
        /\ canon[1].text = canon[2].text)
        => SameNewickTree(tree0, source_tree)

---------------------------------------------------------------------------
\* C12: newick.parse raises, and returns no tree, for every text with
\* unbalanced parentheses and for every text with a branch length that is
\* no number.
C12_MalformedRejected ==
    flow = "newick" =>
        \A i \in 1..Len(canon) :
            (~Balanced(newick[i]) \/ HasBadLength(newick[i]))
                => canon[i].err # "none" /\ canon[i].parsed = NoNode

---------------------------------------------------------------------------
\* C13: every padding and every height that tree2vector computes is returned
\* as exactly 0 when its absolute value is at most epsilon and unchanged
\* otherwise, and snapping the returned vector again changes nothing.
C13_EpsilonSnap ==
    Encoded =>
        /\ Len(enc.lengths) = Len(enc.rawLengths)
        /\ Len(enc.ultrametric) = Len(enc.rawHeights)
        /\ \A k \in DOMAIN enc.rawLengths :
               enc.lengths[k] = IF -Epsilon <= enc.rawLengths[k] /\ enc.rawLengths[k] <= Epsilon
                                THEN 0 ELSE enc.rawLengths[k]
        /\ \A k \in DOMAIN enc.rawHeights :
               enc.ultrametric[k] = IF -Epsilon <= enc.rawHeights[k] /\ enc.rawHeights[k] <= Epsilon
                                    THEN 0 ELSE enc.rawHeights[k]
        /\ \A k \in DOMAIN enc.lengths :
               ~(-Epsilon <= enc.lengths[k] /\ enc.lengths[k] <= Epsilon /\ enc.lengths[k] # 0)
        /\ \A k \in DOMAIN enc.ultrametric :
               ~(-Epsilon <= enc.ultrametric[k] /\ enc.ultrametric[k] <= Epsilon
                    /\ enc.ultrametric[k] # 0)

\* A tree is encoded in which a computed height is epsilon itself and is
\* returned as 0.
C13_Witness ==
    /\ Encoded
    /\ \E k \in DOMAIN enc.rawHeights :
           enc.rawHeights[k] = Epsilon /\ enc.ultrametric[k] = 0

---------------------------------------------------------------------------
\* The nodes that the edges E join to a node of S, in any number of steps.
RECURSIVE ReachedFrom(_, _)
ReachedFrom(S, E) ==
    LET more == S \cup { E[k][2] : k \in { j \in DOMAIN E : E[j][1] \in S } }
                  \cup { E[k][1] : k \in { j \in DOMAIN E : E[j][2] \in S } }
    IN  IF more = S THEN S ELSE ReachedFrom(more, E)

\* The number of edges of E that end in x.
Degree(E, x) == Cardinality({ k \in DOMAIN E : E[k][1] = x \/ E[k][2] = x })

\* vector2tree has just returned, having built the path graph of n >= 2
\* leaves of distinct names.
ChainBuilt ==
    /\ flow = "vector"
    /\ pc = "decoded"
    /\ dec.err = "none"
    /\ dec.num_leaves >= 2
    /\ Cardinality(Range(dec.leaves)) = dec.num_leaves

\* C14: the path graph that vector2tree builds for n >= 2 distinct names has
\* exactly n-1 edges, holds every leaf, gives every leaf at most two edges
\* and exactly two leaves one edge, and is connected; the loop that builds it
\* runs n-1 times.
C14_ChainIsPath ==
    ChainBuilt =>
        LET n     == dec.num_leaves
            E     == dec.path_graph.edges
            names == Range(dec.leaves)
        IN  /\ Len(E) = n - 1
            /\ dec.path_graph.steps = n - 1
            /\ \A k \in DOMAIN E : E[k][1] # E[k][2] /\ { E[k][1], E[k][2] } \subseteq names
            /\ \A j \in DOMAIN E : \A k \in DOMAIN E :
                   j # k => { E[j][1], E[j][2] } # { E[k][1], E[k][2] }
            /\ \A x \in names : Degree(E, x) \in { 1, 2 }
            /\ Cardinality({ x \in names : Degree(E, x) = 1 }) = 2
            /\ ReachedFrom({ dec.leaves[1] }, E) = names
            /\ Range(dec.path_graph.nodes) = names

\* The path graph of the five leaves of DEVEL.py has been built.
C14_Witness ==
    /\ ChainBuilt
    /\ DevelCase
    /\ Len(dec.path_graph.edges) = 4

---------------------------------------------------------------------------
\* The end of the chain after k steps, and the leaves placed by then.
ChainEnd(k) == IF k = 0 THEN dec.leaves[Len(dec.leaves)] ELSE dec.path_graph.edges[k][2]

PlacedAfter(k) == { ChainEnd(j) : j \in 0..k }

\* The height of two leaves as the vector holds it for their positions in
\* the supplied list.
SuppliedHeight(x, y) ==
    LET pos(name) == CHOOSE i \in DOMAIN dec.leaves : dec.leaves[i] = name
    IN  HeightAt(vector, dec.num_leaves, pos(x), pos(y))

\* C15: the chain starts at the last leaf of the supplied list; every step
\* adds an edge from the chain end to a leaf not yet placed whose height to
\* the chain end is the least among the leaves not yet placed, the first such
\* leaf in the supplied order; the edge weighs that height, and the leaf is
\* the next chain end.
C15_GreedyStep ==
    ChainBuilt =>
        LET E      == dec.path_graph.edges
            pos(x) == CHOOSE i \in DOMAIN dec.leaves : dec.leaves[i] = x
        IN  /\ Len(E) >= 1
            /\ E[1][1] = dec.leaves[Len(dec.leaves)]
            /\ \A k \in DOMAIN E :
                   /\ E[k][1] = ChainEnd(k - 1)
                   /\ E[k][2] \in Range(dec.leaves) \ PlacedAfter(k - 1)
                   /\ E[k][3] = SuppliedHeight(E[k][1], E[k][2])
                   /\ \A x \in Range(dec.leaves) \ PlacedAfter(k - 1) :
                          /\ SuppliedHeight(E[k][1], x) >= E[k][3]
                          /\ SuppliedHeight(E[k][1], x) = E[k][3] => pos(E[k][2]) <= pos(x)

\* A chain is built in which, at one step, two leaves not yet placed are
\* tied at the least height, and the heights of the vector are not all equal.
C15_Witness ==
    /\ ChainBuilt
    /\ \E k \in DOMAIN dec.path_graph.edges :
           \E x \in Range(dec.leaves) \ PlacedAfter(k - 1) :
               /\ x # dec.path_graph.edges[k][2]
               /\ SuppliedHeight(ChainEnd(k - 1), x) = dec.path_graph.edges[k][3]
    /\ \E i \in (dec.num_leaves + 1)..Len(vector) :
           \E j \in (dec.num_leaves + 1)..Len(vector) : vector[i] # vector[j]

---------------------------------------------------------------------------
\* The edges of a path graph, in iteration order.
EdgesOf(P) == Tuple([k \in 1..Len(P.weights) |-> << P.nodes[k], P.nodes[k + 1], P.weights[k] >>])

\* The edges of E but the e-th.
Without(E, e) == SubSeqOrEmpty(E, 1, e - 1) \o SubSeqOrEmpty(E, e + 1, Len(E))

\* The connected components of the graph of the given nodes and edges.
ComponentsOf(nodes, E) == { ReachedFrom({ x }, E) : x \in nodes }

\* The nodes c with the edges of E among them form a path.
IsPathOn(c, E) ==
    LET inside == SelectSeq(E, LAMBDA edge : edge[1] \in c /\ edge[2] \in c)
    IN  /\ Len(inside) = Cardinality(c) - 1
        /\ \A x \in c : Degree(inside, x) <= 2
        /\ \A x \in c : ReachedFrom({ x }, inside) = c

\* The path graphs of two edges or more among those the calls of
\* pathgraph2tree receive in the decoding.
SplitPaths == { P \in SubPaths(dec.path_graph, hashOrder) : Len(P.weights) >= 2 }

\* C16: for every path graph of two edges or more that pathgraph2tree
\* receives, the returned node has exactly two children, and their leaf sets
\* are the two connected components, each a path, that are left when the
\* first edge of maximum weight, in iteration order, is removed.
C16_RecursiveSplit ==
    ChainBuilt =>
        \A P \in SplitPaths :
            LET E    == EdgesOf(P)
                t    == pathgraph2tree(P, hashOrder)
                kids == { Range(get_leaf_names(t.children[i])) : i \in DOMAIN t.children }
            IN  /\ Len(t.children) = 2
                /\ \E e \in DOMAIN E :
                       /\ \A k \in DOMAIN E : E[k][3] <= E[e][3]
                       /\ \A k \in 1..(e - 1) : E[k][3] < E[e][3]
                       /\ Cardinality(ComponentsOf(Range(P.nodes), Without(E, e))) = 2
                       /\ \A c \in ComponentsOf(Range(P.nodes), Without(E, e)) :
                              IsPathOn(c, Without(E, e))
                       /\ kids = ComponentsOf(Range(P.nodes), Without(E, e))

\* A decoding of five leaves in which a path graph below the first one has
\* two edges or more, and two of its edges are tied at the maximum weight.
C16_Witness ==
    /\ ChainBuilt
    /\ dec.num_leaves = 5
    /\ \E P \in SplitPaths :
           /\ Len(P.nodes) < dec.num_leaves
           /\ \E j \in DOMAIN P.weights : \E k \in DOMAIN P.weights :
                  /\ j # k
                  /\ P.weights[j] = P.weights[k]
                  /\ \A h \in DOMAIN P.weights : P.weights[h] <= P.weights[j]

---------------------------------------------------------------------------
\* C17: for every path graph that pathgraph2tree receives in a decoding, the
\* sub-paths of one and of two nodes included, no node of the returned tree,
\* the root included, has exactly one child.
C17_NoSingleChild ==
    ChainBuilt =>
        \A P \in SubPaths(dec.path_graph, hashOrder) :
            LET t == pathgraph2tree(P, hashOrder)
            IN  \A k \in 1..Len(AllPaths(t)) :
                    Len(NodeAt(t, AllPaths(t)[k]).children) # 1

---------------------------------------------------------------------------
\* The greatest of the pair entries of the vector of n leaves.
GreatestHeight(v, n) == MaxOf({ v[k] : k \in (n + 1)..Len(v) })

\* C18: for every vector of valid length, ultrametric or not, once the
\* branch lengths are assigned every leaf lies at the depth root_age, the
\* greatest pair entry of the vector, and in the tree returned the i-th named
\* leaf lies at the depth root_age less entry i.
C18_LeafDepth ==
    ChainBuilt =>
        LET n   == dec.num_leaves
            age == GreatestHeight(vector, n)
        IN  /\ Sorted(get_leaf_names(dec.ultrametric)) = Sorted(dec.leaves)
            /\ Sorted(get_leaf_names(dec.tree)) = Sorted(dec.leaves)
            /\ \A i \in 1..n :
                   /\ MrcaDepth(dec.ultrametric, dec.leaves[i], dec.leaves[i]) = age
                   /\ MrcaDepth(dec.tree, dec.leaves[i], dec.leaves[i]) = age - vector[i]

\* A vector of three leaves that is not ultrametric, with a padding above
\* zero, is decoded into a tree with a leaf two branches below the root.
C18_Witness ==
    /\ ChainBuilt
    /\ dec.num_leaves = 3
    /\ ~ThreePoint(vector, 3)
    /\ \E i \in 1..3 : vector[i] > 0
    /\ \E k \in 1..Len(AllPaths(dec.tree)) : Len(AllPaths(dec.tree)[k]) = 2

---------------------------------------------------------------------------
\* The level order with every level reversed.
RECURSIVE LevelsReversed(_, _, _)
LevelsReversed(paths, d, maxd) ==
    IF d > maxd THEN << >>
    ELSE Reverse(SelectSeq(paths, LAMBDA p : Len(p) = d)) \o LevelsReversed(paths, d + 1, maxd)

\* Orders in which the nodes of t other than the root can be visited: every
\* order when there are at most four of them, and otherwise the level order,
\* the level order with every level reversed, the preorder and the reverse
\* of the level order.
VisitOrders(t) ==
    LET paths == AllPaths(t)
        level == iter_descendants(t)
        m     == Len(level)
    IN  IF m <= 4
        THEN { Tuple([i \in 1..m |-> level[f[i]]]) :
                   f \in { g \in [1..m -> 1..m] : \A i \in 1..m : \A j \in 1..m :
                                                     g[i] = g[j] => i = j } }
        ELSE { level,
               LevelsReversed(paths, 1, MaxOf({ Len(paths[k]) : k \in 1..Len(paths) })),
               Tail(paths),
               Reverse(level) }

\* Every node is visited after its parent.
ParentFirst(order) ==
    \A i \in DOMAIN order : \A j \in DOMAIN order :
        order[j] = SubSeqOrEmpty(order[i], 1, Len(order[i]) - 1) => j < i

\* The tree with the branch lengths assigned to the skeleton of the decoding
\* in the given order of the nodes.
AssignedIn(order) ==
    SetBranchLengths(dec.skeleton, order, 1, dec.root_age,
                     LeafDistances(vector, dec.leaves, dec.num_leaves))

\* The greatest height, as the vector holds it, between two leaves below the
\* node at path p of t; 0 for a leaf.
CladeHeight(t, p) ==
    LET names == Range(get_leaf_names(NodeAt(t, p)))
    IN  MaxOf({ 0 } \cup { SuppliedHeight(pair[1], pair[2]) :
                               pair \in { q \in names \X names : q[1] # q[2] } })

\* C19 as stated: the assignment of the branch lengths gives the same tree in
\* whatever order the nodes other than the root are visited.
C19_AnyOrder ==
    ChainBuilt =>
        \A order \in VisitOrders(dec.skeleton) : AssignedIn(order) = dec.ultrametric

\* C19, amended: the assignment of the branch lengths gives the same tree in
\* every order that visits each node after its parent, the tree in which
\* every node lies at the depth root_age less its height.
C19_ParentFirstOrder ==
    ChainBuilt =>
        /\ ParentFirst(iter_descendants(dec.skeleton))
        /\ \A order \in VisitOrders(dec.skeleton) :
               ParentFirst(order) => AssignedIn(order) = dec.ultrametric
        /\ \A p \in NonRootPaths(dec.ultrametric) :
               DistFromRoot(dec.ultrametric, p)
                   = GreatestHeight(vector, dec.num_leaves) - CladeHeight(dec.ultrametric, p)

\* A decoding of three leaves with heights that differ, in which an order
\* other than the level order visits each node after its parent.
C19_Witness ==
    /\ ChainBuilt
    /\ dec.num_leaves = 3
    /\ vector[4] # vector[6]
    /\ \E order \in VisitOrders(dec.skeleton) :
           /\ ParentFirst(order)
           /\ order # iter_descendants(dec.skeleton)
           /\ \E i \in DOMAIN order : Len(order[i]) = 2 /\ i < Len(order)

---------------------------------------------------------------------------
\* The tree t with every leaf named from[i] named to[i] instead.
RECURSIVE Renamed(_, _, _)
Renamed(t, from, to) ==
    IF IsLeaf(t)
    THEN [t EXCEPT !.name = to[CHOOSE i \in DOMAIN from : from[i] = t.name]]
    ELSE [t EXCEPT !.children =
             Tuple([i \in 1..Len(t.children) |-> Renamed(t.children[i], from, to)])]

\* The index, counted from 1, of the pair (i, j), i < j, in the
\* lexicographic enumeration of the pairs of 1..n.
PairIndex(n, i, j) == (i - 1) * n - (i * (i - 1)) \div 2 + (j - i)

\* vector2tree was called with a list of the right number n >= 2 of distinct
\* names.
NamesSupplied ==
    /\ flow = "vector"
    /\ pc \in { "decoded", "failed" }
    /\ ~leaves.none
    /\ IsTriangular(Len(vector))
    /\ Len(leaves.names) >= 2
    /\ vector_length(Len(leaves.names)) = Len(vector)
    /\ Cardinality(Range(leaves.names)) = Len(leaves.names)

\* C20: vector2tree takes the supplied names in the supplied order, sorted or
\* not, without error; the height of the i-th and the j-th supplied name
\* (i < j) is the vector's entry n + k, k the index of (i, j) among the pairs
\* in lexicographic order, in both directions; and the decoded tree is the
\* tree decoded for the sorted names with the i-th sorted name replaced by
\* the i-th supplied name.
C20_SuppliedOrder ==
    NamesSupplied =>
        LET n      == Len(leaves.names)
            names  == leaves.names
            ld     == LeafDistances(vector, dec.leaves, dec.num_leaves)
            sorted == vector2tree(vector, LeafList(Sorted(names)), hashOrder)
        IN  /\ dec.err = "none"
            /\ dec.leaves = names
            /\ dec.num_leaves = n
            /\ DOMAIN ld = { p \in Range(names) \X Range(names) : p[1] # p[2] }
            /\ \A i \in 1..n : \A j \in (i + 1)..n :
                   /\ ld[<< names[i], names[j] >>] = vector[n + PairIndex(n, i, j)]
                   /\ ld[<< names[j], names[i] >>] = vector[n + PairIndex(n, i, j)]
            /\ names # Sorted(names)
                   => dec.tree = Renamed(sorted.tree, Sorted(names), names)

\* Three names are supplied in an order that is not the sorted one, and the
\* decoded tree is not, up to child order, the tree decoded for the sorted
\* names.
C20_Witness ==
    /\ NamesSupplied
    /\ Len(leaves.names) = 3
    /\ leaves.names # Sorted(leaves.names)
    /\ dec.err = "none"
    /\ ~SameTree(dec.tree,
                 vector2tree(vector, LeafList(Sorted(leaves.names)), hashOrder).tree,
                 Tolerance)

---------------------------------------------------------------------------
\* The padding of the i-th supplied leaf exceeds none of its heights.
PaddingWithinHeights(i) ==
    \A j \in 1..dec.num_leaves :
        j # i => vector[i] <= HeightAt(vector, dec.num_leaves, i, j)

\* C21 as stated: for every vector of valid length with non-negative
\* entries, every node but the root of the tree that vector2tree returns has
\* a non-negative branch length.
C21_NonNegativeBranches ==
    (ChainBuilt /\ \A k \in DOMAIN vector : vector[k] >= 0) =>
        \A p \in NonRootPaths(dec.tree) : NodeAt(dec.tree, p).dist >= 0

\* C21, amended: for every vector of valid length with non-negative entries,
\* every internal node but the root of the returned tree has a non-negative
\* branch length, and so has every leaf whose padding exceeds none of its
\* heights.
C21_NonNegativeWithinHeights ==
    (ChainBuilt /\ \A k \in DOMAIN vector : vector[k] >= 0) =>
        /\ \A p \in NonRootPaths(dec.tree) :
               ~IsLeaf(NodeAt(dec.tree, p)) => NodeAt(dec.tree, p).dist >= 0
        /\ \A i \in 1..dec.num_leaves :
               PaddingWithinHeights(i)
                   => NodeAt(dec.tree, SearchName(dec.tree, dec.leaves[i])).dist >= 0

\* A vector of three leaves is decoded, every padding within the heights of
\* its leaf and one above zero, into a tree with an internal branch and a
\* leaf branch above zero.
C21_Witness ==
    /\ ChainBuilt
    /\ dec.num_leaves = 3
    /\ \A i \in 1..3 : PaddingWithinHeights(i)
    /\ \E i \in 1..3 : vector[i] > 0
    /\ \E p \in NonRootPaths(dec.tree) :
           ~IsLeaf(NodeAt(dec.tree, p)) /\ NodeAt(dec.tree, p).dist > 0
    /\ \E p \in NonRootPaths(dec.tree) :
           IsLeaf(NodeAt(dec.tree, p)) /\ NodeAt(dec.tree, p).dist > 0

---------------------------------------------------------------------------
\* C22: pathgraph2tree terminates on every path graph it receives in a
\* decoding: every recursive call is made on a graph with fewer edges than
\* its caller's, the two graphs a call hands on have together one edge less
\* than its own, a graph of one or two nodes is handled without a recursive
\* call, and on a graph of n >= 2 nodes the call stack never grows beyond n-1
\* calls of pathgraph2tree.
C22_Termination ==
    ChainBuilt =>
        \A P \in SubPaths(dec.path_graph, hashOrder) :
            LET n     == Len(P.nodes)
                calls == CallsOf(P, hashOrder, 1, Len(P.weights) + 1)
            IN  /\ \A c \in calls :
                       /\ Len(c.graph.weights) < c.caller_edges
                       /\ Len(c.graph.weights) = Len(c.graph.nodes) - 1
                       /\ n >= 2 => c.depth <= n - 1
                /\ n <= 2 => Cardinality(calls) = 1
                /\ n > 2 => Cardinality({ c \in calls : c.depth = 2 }) = 2
                /\ \A c \in calls : \A d \in calls :
                       (c.depth = 2 /\ d.depth = 2 /\ c # d)
                           => Len(c.graph.weights) + Len(d.graph.weights) = Len(P.weights) - 1

\* A decoding of five leaves in which the call stack of pathgraph2tree
\* reaches four calls, the last of them on a graph of one node.
C22_Witness ==
    /\ ChainBuilt
    /\ dec.num_leaves = 5
    /\ \E c \in CallsOf(dec.path_graph, hashOrder, 1, 5) :
           c.depth = 4 /\ Len(c.graph.nodes) = 1

---------------------------------------------------------------------------
\* C23: the tree that vector2tree returns for a vector that implies n >= 2
\* leaves and n distinct names has exactly n leaves, the set of their names
\* is the set of the names, every name is carried by exactly one leaf, and
\* no internal node carries one of the names.
C23_LeafPreservation ==
    ChainBuilt =>
        LET n     == dec.num_leaves
            t     == dec.tree
            paths == Range(AllPaths(t))
        IN  /\ vector_length(n) = Len(vector)
            /\ ~leaves.none /\ leaves.names # << >> => dec.leaves = leaves.names
            /\ Cardinality({ p \in paths : IsLeaf(NodeAt(t, p)) }) = n
            /\ { NodeAt(t, p).name : p \in { q \in paths : IsLeaf(NodeAt(t, q)) } }
                   = Range(dec.leaves)
            /\ \A x \in Range(dec.leaves) :
                   Cardinality({ p \in paths : IsLeaf(NodeAt(t, p)) /\ NodeAt(t, p).name = x }) = 1
            /\ \A p \in paths :
                   ~IsLeaf(NodeAt(t, p)) => NodeAt(t, p).name \notin Range(dec.leaves)

\* Three names supplied in an order other than the sorted one are decoded
\* with a vector whose heights are not all equal.
C23_Witness ==
    /\ ChainBuilt
    /\ ~leaves.none
    /\ dec.num_leaves = 3
    /\ dec.leaves # Sorted(dec.leaves)
    /\ vector[4] # vector[5]
    /\ Len(get_leaf_names(dec.tree)) = 3

---------------------------------------------------------------------------
\* The tree is one the restricted round trip is stated for: every internal
\* node has two children, every internal branch but the root's is longer
\* than least, and no leaf branch is negative.
IsRestricted(t, least) ==
    /\ IsBinary(t)
    /\ InternalBranchesAbove(t, least)
    /\ \A p \in NonRootPaths(t) : NodeAt(t, p).dist >= 0

\* C24 as stated: for every tree with two children at every internal node,
\* internal branches above zero and leaf branches not negative, the tree
\* decoded from its vector with the sorted names has the topology, the names
\* and the branch lengths of the tree, up to child order.
C24_RestrictedRoundTrip ==
    (RoundTripDone /\ IsRestricted(tree0, 0)) =>
        dec.err = "none" /\ SameTree(dec.tree, tree0, 0)

\* C24, amended: when the internal branches, written with 6 significant
\* digits, are longer than 1e-6, the decoded tree has the topology and the
\* names of the tree, up to child order, and every branch length within 1e-6
\* of that of the tree written with 6 significant digits.
C24_RestrictedRoundTripRounded ==
    (RoundTripDone /\ IsRestricted(SixDigits(tree0), Epsilon)) =>
        /\ dec.err = "none"
        /\ vector = enc.lengths \o enc.ultrametric
        /\ leaves = LeafList(Sorted(get_leaf_names(tree0)))
        /\ SameTree(dec.tree, SixDigits(tree0), Tolerance)

\* The round trip of a tree of three leaves with an internal branch of 2e-6
\* and a leaf branch of eight significant digits, whose vector holds two
\* equal heights: the decoded tree has the topology of the tree and another
\* length on that leaf.
C24_Witness ==
    /\ RoundTripDone
    /\ IsRestricted(SixDigits(tree0), Epsilon)
    /\ Len(get_leaf_names(tree0)) = 3
    /\ \E p \in NonRootPaths(tree0) : NodeAt(tree0, p).dist = 10000049
    /\ vector[5] = vector[6] \/ vector[4] = vector[5]
    /\ SameTree(dec.tree, tree0, DefaultDist)
    /\ ~SameTree(dec.tree, tree0, 0)

---------------------------------------------------------------------------
\* C25: in the tree that vector2tree returns for a vector that implies
\* n >= 2 leaves, every node with children, the root included, has exactly
\* two; the tree has n-1 such nodes and 2n-1 nodes in all, also when heights
\* are equal.
C25_StrictlyBinary ==
    ChainBuilt =>
        LET n        == dec.num_leaves
            t        == dec.tree
            paths    == Range(AllPaths(t))
            internal == { p \in paths : NodeAt(t, p).children # << >> }
        IN  /\ \A p \in internal : Len(NodeAt(t, p).children) = 2
            /\ Len(t.children) = 2
            /\ Cardinality(internal) = n - 1
            /\ Cardinality(paths) = 2 * n - 1

\* A vector of four leaves whose heights are all equal is decoded.
C25_Witness ==
    /\ ChainBuilt
    /\ dec.num_leaves = 4
    /\ \A k \in 5..Len(vector) : vector[k] = vector[5]
    /\ Len(AllPaths(dec.tree)) = 7

---------------------------------------------------------------------------
\* The height tree2vector computed, before the snap, for the i-th and the
\* j-th leaf in sorted order.
RawHeight(i, j) ==
    LET n == Len(enc.leaves)
    IN  IF i < j THEN enc.rawHeights[PairIndex(n, i, j)]
        ELSE enc.rawHeights[PairIndex(n, j, i)]

\* C26: in what tree2vector computes before the snap, for a tree of n >= 2
\* leaves and non-negative branch lengths, the smallest padding is 0, every
\* height is at least the paddings of its two leaves, of the three heights
\* among three leaves the two largest are equal, and in the padded working
\* tree the two leaves of a pair are equally far from their common ancestor.
C26_NormalizedUltrametric ==
    Encoded =>
        LET n    == Len(enc.leaves)
            pads == enc.rawLengths
            t    == enc.tree
            at   == [i \in 1..n |-> SearchName(t, enc.leaves[i])]
        IN  /\ n >= 2
            /\ Len(pads) = n
            /\ Len(enc.rawHeights) = (n * (n - 1)) \div 2
            /\ \E i \in 1..n : pads[i] = 0
            /\ \A i \in 1..n : pads[i] >= 0
            /\ \A i \in 1..n : \A j \in 1..n :
                   i # j => RawHeight(i, j) >= pads[i] /\ RawHeight(i, j) >= pads[j]
            /\ \A i \in 1..n : \A j \in 1..n : \A k \in 1..n :
                   (i # j /\ i # k /\ j # k)
                       => \/ RawHeight(i, j) = RawHeight(i, k) /\ RawHeight(j, k) <= RawHeight(i, j)
                          \/ RawHeight(i, j) = RawHeight(j, k) /\ RawHeight(i, k) <= RawHeight(i, j)
                          \/ RawHeight(i, k) = RawHeight(j, k) /\ RawHeight(i, j) <= RawHeight(i, k)
            /\ \A i \in 1..n : \A j \in (i + 1)..n :
                   LET ancestor == DistFromRoot(t, CommonPrefix(at[i], at[j]))
                   IN  DistFromRoot(t, at[i]) - ancestor
                           = DistFromRoot(t, at[j]) - ancestor

\* A tree of three leaves at different depths is encoded: two paddings are
\* above zero and the heights are not all equal.
C26_Witness ==
    /\ Encoded
    /\ Len(enc.leaves) = 3
    /\ Cardinality({ i \in 1..3 : enc.rawLengths[i] > 0 }) = 2
    /\ enc.rawHeights[1] # enc.rawHeights[3]

---------------------------------------------------------------------------
\* A vector of n >= 2 leaves with non-negative entries, smallest padding 0
\* and heights that meet the three-point condition has been decoded with its
\* names in sorted order, and the decoded tree has been encoded.
NormalizedRoundTrip ==
    /\ flow = "vector"
    /\ pc = "done"
    /\ ~leaves.none
    /\ Len(leaves.names) >= 2
    /\ leaves.names = Sorted(leaves.names)
    /\ Cardinality(Range(leaves.names)) = Len(leaves.names)
    /\ \A k \in DOMAIN vector : vector[k] >= 0
    /\ SmallestPadding(vector, Len(leaves.names)) = 0
    /\ ThreePoint(vector, Len(leaves.names))

\* C27 as stated: tree2vector of the tree decoded from a normalized vector
\* returns the vector, entry by entry.
C27_VectorRoundTrip ==
    NormalizedRoundTrip => enc.result = vector

\* C27, amended: when writing the branch lengths of the decoded tree with 6
\* significant digits does not change them, tree2vector of the decoded tree
\* returns the vector entry by entry, but for the entries within 1e-6 of
\* zero, which it returns as 0.
C27_VectorRoundTripSnapped ==
    (NormalizedRoundTrip /\ SixDigits(dec.tree) = dec.tree) =>
        /\ Len(enc.result) = Len(vector)
        /\ \A k \in DOMAIN vector :
               enc.result[k] = IF vector[k] <= Epsilon THEN 0 ELSE vector[k]

\* The round trip of a normalized vector of three leaves with a padding
\* above zero, two equal heights above 1e-6 and one height within 1e-6 of
\* zero, which comes back as 0.
C27_Witness ==
    /\ NormalizedRoundTrip
    /\ Len(leaves.names) = 3
    /\ SixDigits(dec.tree) = dec.tree
    /\ \E i \in 1..3 : vector[i] > 0
    /\ \E j \in 4..6 : \E k \in 4..6 : j # k /\ vector[j] = vector[k] /\ vector[j] > Epsilon
    /\ \E k \in 4..6 : vector[k] > 0 /\ vector[k] <= Epsilon /\ enc.result[k] = 0

====
